---------------------------- MODULE Spec2Model ----------------------------
(***************************************************************************)
(* State-machine model of the thingino-cloner host tool: the USB vendor    *)
(* request engine (src/usb/device.c), the vendor protocol wrappers         *)
(* (src/usb/protocol.c), the bootstrap orchestrator (src/bootstrap.c) and  *)
(* the firmware-stage write path (src/firmware/handshake.c, writer.c).     *)
(*                                                                         *)
(* The USB transport is the environment.  Every libusb transfer the code   *)
(* makes draws its result from a script: the i-th transfer of a call gets  *)
(* the i-th entry of the script, and "ok" once the script is exhausted.     *)
(* 32-bit addresses are kept as a pair of 16-bit halves [hi, lo].           *)
(***************************************************************************)
EXTENDS Integers, Sequences, FiniteSets, TLC

VARIABLES
    dev,    \* the usb_device_t handle: info.stage, info.variant, closed, bus, ...
    usb,    \* the devices attached to the bus, in libusb list order
    cfg,    \* the inputs of the operation under way
    pc,     \* position of the operation under way
    trace,  \* everything the code did on the bus so far, in order
    ret,    \* the status the operation returned ("none" while it runs)
    loc     \* the locals of the operation under way

vars == <<dev, usb, cfg, pc, trace, ret, loc>>

-----------------------------------------------------------------------------
(* include/thingino.h                                                      *)

VR_GET_CPU_INFO == 0
VR_SET_DATA_ADDR == 1
VR_SET_DATA_LEN == 2
VR_FLUSH_CACHE == 3
VR_PROG_STAGE1 == 4
VR_PROG_STAGE2 == 5
VR_FW_READ == 16
VR_FW_HANDSHAKE == 17
VR_WRITE == 18
VR_FW_WRITE1 == 19
VR_FW_WRITE2 == 20
VR_FW_READ_STATUS2 == 25
VR_FW_READ_STATUS4 == 38

REQUEST_TYPE_VENDOR == 192
REQUEST_TYPE_OUT == 64
REQUEST_TYPE_VENDOR_IF == 193

ENDPOINT_IN == 129
ENDPOINT_OUT == 1

STAGE_BOOTROM == "bootrom"
STAGE_FIRMWARE == "firmware"

THINGINO_SUCCESS == "SUCCESS"
THINGINO_ERROR_INIT_FAILED == "INIT_FAILED"
THINGINO_ERROR_DEVICE_NOT_FOUND == "DEVICE_NOT_FOUND"
THINGINO_ERROR_OPEN_FAILED == "OPEN_FAILED"
THINGINO_ERROR_TRANSFER_FAILED == "TRANSFER_FAILED"
THINGINO_ERROR_TIMEOUT == "TIMEOUT"
THINGINO_ERROR_INVALID_PARAMETER == "INVALID_PARAMETER"
THINGINO_ERROR_MEMORY == "MEMORY"
THINGINO_ERROR_FILE_IO == "FILE_IO"
THINGINO_ERROR_PROTOCOL == "PROTOCOL"

-----------------------------------------------------------------------------
(* The transport: what one libusb transfer can report.                     *)

\* libusb results of a control transfer: "ok" is a return value >= 0, the
\* others are LIBUSB_ERROR_TIMEOUT, _PIPE, _NO_DEVICE and _IO.
LibusbErrors == {"timeout", "pipe", "nodev", "io"}
LibusbResults == {"ok"} \cup LibusbErrors

\* n copies of k
Rep(k, n) == [i \in 1..n |-> k]

\* the result of the i-th transfer under script s
Outcome(s, i) == IF i <= Len(s) THEN s[i] ELSE "ok"

\* the first n entries of s dropped
Drop(s, n) == IF n >= Len(s) THEN << >> ELSE SubSeq(s, n + 1, Len(s))

\* trace events
Ctl(rt, req, val, idx, len, tmo, res) ==
    [k |-> "ctl", rt |-> rt, req |-> req, val |-> val, idx |-> idx,
     len |-> len, tmo |-> tmo, res |-> res]
Sleep(ms) == [k |-> "sleep", ms |-> ms]

\* 32-bit value as its two 16-bit halves
U32(hi, lo) == [hi |-> hi, lo |-> lo]
\* a length below 2^31 as a 32-bit value
U32Of(n) == U32(n \div 65536, n % 65536)

-----------------------------------------------------------------------------
(* src/usb/device.c: usb_device_vendor_request                             *)

max_retries_4 == 5 - 1
max_retries == 5

retry_delays_flat == <<500000, 500000, 500000, 500000, 500000>>
retry_delays == <<500000, 1000000, 2000000, 3000000, 5000000>>

\* adaptive control timeout (ms)
vendor_request_timeout_ms(request) ==
    IF request \in {VR_SET_DATA_ADDR, VR_SET_DATA_LEN, VR_PROG_STAGE1, VR_PROG_STAGE2}
    THEN 12000 ELSE 5000

is_recoverable_any(result) == result # "ok"
\* result == LIBUSB_ERROR_TIMEOUT || LIBUSB_ERROR_PIPE || LIBUSB_ERROR_NO_DEVICE
is_recoverable(result) == result \in {"timeout", "pipe", "nodev"}

is_key_op(request) == request \in {VR_SET_DATA_ADDR, VR_SET_DATA_LEN, VR_PROG_STAGE2}
\* (request_type & 0x60) == 0x40
is_vendor_type(request_type) == (request_type \div 32) % 4 = 2
\* (request_type & 0x1F) == 0x00
is_device_recipient(request_type) == request_type % 32 = 0
\* (request_type & 0xE0) | 0x01
alt_request_type_same(request_type) == request_type
alt_request_type(request_type) == (request_type \div 32) * 32 + 1

uses_fallback_never(request_type, request) == FALSE
uses_fallback(request_type, request) ==
    is_key_op(request) /\ is_vendor_type(request_type) /\ is_device_recipient(request_type)

\* The retry loop.  rq = [rt, req, val, idx, len]; s the transport script;
\* i the index of the next transfer; ev the events so far.
\* Result: [status, ev, used] with used the number of transfers made.
RECURSIVE vendor_request_loop(_, _, _, _, _)
vendor_request_loop(rq, s, i, retry_count, ev) ==
    IF retry_count >= max_retries
    THEN [status |-> THINGINO_ERROR_TRANSFER_FAILED, ev |-> ev, used |-> i - 1]
    ELSE
    LET timeout_ms == vendor_request_timeout_ms(rq.req)
        result == Outcome(s, i)
        ev1 == Append(ev, Ctl(rq.rt, rq.req, rq.val, rq.idx, rq.len, timeout_ms, result))
    IN  IF result = "ok"
        THEN [status |-> THINGINO_SUCCESS, ev |-> ev1, used |-> i]
        ELSE IF is_recoverable(result)
        THEN LET fb == uses_fallback(rq.rt, rq.req)
                 alt == Outcome(s, i + 1)
                 ev2 == IF fb
                        THEN Append(ev1, Ctl(alt_request_type(rq.rt), rq.req, rq.val,
                                             rq.idx, rq.len, timeout_ms, alt))
                        ELSE ev1
                 j == IF fb THEN i + 2 ELSE i + 1
             IN  IF fb /\ alt = "ok"
                 THEN [status |-> THINGINO_SUCCESS, ev |-> ev2, used |-> i + 1]
                 ELSE IF retry_count + 1 < max_retries
                 THEN vendor_request_loop(rq, s, j, retry_count + 1,
                          Append(ev2, Sleep(retry_delays[retry_count + 1] \div 1000)))
                 ELSE [status |-> THINGINO_ERROR_TRANSFER_FAILED, ev |-> ev2, used |-> j - 1]
        ELSE [status |-> THINGINO_ERROR_TRANSFER_FAILED, ev |-> ev1, used |-> i]

\* wLength on the wire: response ? 8 : length
vendor_request_wlength(length, has_response) == IF has_response THEN 8 ELSE length

usb_device_vendor_request(d, s, request_type, request, value, index, length, has_response) ==
    IF d.closed
    THEN [status |-> THINGINO_ERROR_INVALID_PARAMETER, ev |-> << >>, used |-> 0]
    ELSE vendor_request_loop(
             [rt |-> request_type, req |-> request, val |-> value, idx |-> index,
              len |-> vendor_request_wlength(length, has_response)],
             s, 1, 0, << >>)

-----------------------------------------------------------------------------
(* src/usb/protocol.c                                                      *)

\* a wrapper that sleeps 100 ms after a successful OUT request
ProtocolOut(d, s, request, value, index, sleep_ms) ==
    LET r == usb_device_vendor_request(d, s, REQUEST_TYPE_OUT, request, value, index, 0, FALSE)
    IN  IF r.status # THINGINO_SUCCESS
        THEN r
        ELSE [r EXCEPT !.ev = Append(@, Sleep(sleep_ms))]

protocol_set_data_address(d, s, addr) ==
    ProtocolOut(d, s, VR_SET_DATA_ADDR, addr.hi, addr.lo, 100)

protocol_set_data_length(d, s, length) ==
    ProtocolOut(d, s, VR_SET_DATA_LEN, U32Of(length).hi, U32Of(length).lo, 100)

protocol_flush_cache(d, s) ==
    ProtocolOut(d, s, VR_FLUSH_CACHE, 0, 0, 100)

protocol_prog_stage1(d, s, addr) ==
    ProtocolOut(d, s, VR_PROG_STAGE1, addr.hi, addr.lo, 100)

prog_stage2_status_strict(status) == status
\* the status protocol_prog_stage2 returns for the status of its vendor request
prog_stage2_status(status) == THINGINO_SUCCESS

protocol_prog_stage2(d, s, addr) ==
    LET r == usb_device_vendor_request(d, s, REQUEST_TYPE_OUT, VR_PROG_STAGE2,
                                       addr.hi, addr.lo, 0, FALSE)
    IN  IF r.status # THINGINO_SUCCESS
        THEN [r EXCEPT !.status = prog_stage2_status(r.status)]
        ELSE [r EXCEPT !.ev = Append(@, Sleep(100))]

protocol_fw_handshake(d, s) ==
    ProtocolOut(d, s, VR_FW_HANDSHAKE, 0, 0, 50)

-----------------------------------------------------------------------------
(* Handles and the inputs drawn for them                                   *)

\* include/thingino.h processor_variant_t, with the A1 and T41N members the
\* sources use (src/utils.c, src/bootstrap.c)
Variants == {"T20", "T21", "T23", "T30", "T31", "T31X", "T31ZX", "T40", "T41",
             "T41N", "A1"}

\* ctx: device->context; hctx: the libusb context device->handle was opened from
Handle(stage, variant, closed, bus, address, vendor, product) ==
    [stage |-> stage, variant |-> variant, closed |-> closed, bus |-> bus,
     address |-> address, vendor |-> vendor, product |-> product, ctx |-> 1,
     hctx |-> 1]

\* 0x601A / 0xC309: a T31-series part in boot ROM
VENDOR_ID_INGENIC == 24602
VENDOR_ID_INGENIC_ALT == 41224
PRODUCT_ID_BOOTROM == 18288
PRODUCT_ID_BOOTROM2 == 49929
PRODUCT_ID_BOOTROM3 == 24602
PRODUCT_ID_FIRMWARE == 34951
PRODUCT_ID_FIRMWARE2 == 24606

\* bounds of the transport scripts
MaxFails == 11
MixedLen == 3

RECURSIVE SeqsUpTo(_, _)
SeqsUpTo(S, n) ==
    IF n = 0 THEN {<< >>}
    ELSE LET shorter == SeqsUpTo(S, n - 1)
         IN  shorter \cup {Append(q, x) : q \in {t \in shorter : Len(t) = n - 1}, x \in S}

\* a transport that fails n times with one error and then succeeds, and every
\* short mix of results
ProtoScripts ==
    {Rep(k, n) : k \in LibusbErrors, n \in 0..MaxFails} \cup SeqsUpTo(LibusbResults, MixedLen)

-----------------------------------------------------------------------------
(* SpecProto: one call of the vendor request engine or of a protocol       *)
(* wrapper on a handle, against a scripted transport.                      *)

ProtoAddrs == {U32(32768, 4096), U32(32768, 6144), U32(32784, 0), U32(0, 32784)}
ProtoLens == {324, 28672, 250000}

VendorRequestCalls ==
    [fn : {"vendor_request"},
     rt : {REQUEST_TYPE_OUT, REQUEST_TYPE_VENDOR, 65},
     req : {VR_GET_CPU_INFO, VR_SET_DATA_ADDR, VR_SET_DATA_LEN, VR_FLUSH_CACHE,
            VR_PROG_STAGE1, VR_PROG_STAGE2, VR_WRITE, VR_FW_READ_STATUS2},
     addr : {U32(0, 0)}, len : {0}, script : ProtoScripts]

ProtocolCalls ==
    [fn : {"set_data_address", "prog_stage1", "prog_stage2"},
     rt : {REQUEST_TYPE_OUT}, req : {0}, addr : ProtoAddrs, len : {0},
     script : ProtoScripts]
    \cup
    [fn : {"set_data_length"},
     rt : {REQUEST_TYPE_OUT}, req : {0}, addr : {U32(0, 0)}, len : ProtoLens,
     script : ProtoScripts]
    \cup
    [fn : {"flush_cache", "fw_handshake"},
     rt : {REQUEST_TYPE_OUT}, req : {0}, addr : {U32(0, 0)}, len : {0},
     script : ProtoScripts]

InitProto ==
    /\ \E st \in {STAGE_BOOTROM, STAGE_FIRMWARE}, cl \in BOOLEAN :
          dev = Handle(st, "T31X", cl, 1, 5, VENDOR_ID_INGENIC, PRODUCT_ID_BOOTROM2)
    /\ usb = << >>
    /\ cfg \in VendorRequestCalls \cup ProtocolCalls
    /\ pc = "call"
    /\ trace = << >>
    /\ ret = "none"
    /\ loc = [used |-> 0]

\* the call returns r
ProtoReturn(r) ==
    /\ trace' = trace \o r.ev
    /\ ret' = r.status
    /\ loc' = [used |-> r.used]
    /\ pc' = "done"
    /\ UNCHANGED <<dev, usb, cfg>>

VendorRequestCall ==
    /\ pc = "call" /\ cfg.fn = "vendor_request"
    /\ ProtoReturn(usb_device_vendor_request(dev, cfg.script, cfg.rt, cfg.req,
                                             0, 0, 0, cfg.rt >= 128))

SetDataAddressCall ==
    /\ pc = "call" /\ cfg.fn = "set_data_address"
    /\ ProtoReturn(protocol_set_data_address(dev, cfg.script, cfg.addr))

SetDataLengthCall ==
    /\ pc = "call" /\ cfg.fn = "set_data_length"
    /\ ProtoReturn(protocol_set_data_length(dev, cfg.script, cfg.len))

FlushCacheCall ==
    /\ pc = "call" /\ cfg.fn = "flush_cache"
    /\ ProtoReturn(protocol_flush_cache(dev, cfg.script))

ProgStage1Call ==
    /\ pc = "call" /\ cfg.fn = "prog_stage1"
    /\ ProtoReturn(protocol_prog_stage1(dev, cfg.script, cfg.addr))

ProgStage2Call ==
    /\ pc = "call" /\ cfg.fn = "prog_stage2"
    /\ ProtoReturn(protocol_prog_stage2(dev, cfg.script, cfg.addr))

FwHandshakeCall ==
    /\ pc = "call" /\ cfg.fn = "fw_handshake"
    /\ ProtoReturn(protocol_fw_handshake(dev, cfg.script))

NextProto ==
    \/ VendorRequestCall
    \/ SetDataAddressCall
    \/ SetDataLengthCall
    \/ FlushCacheCall
    \/ ProgStage1Call
    \/ ProgStage2Call
    \/ FwHandshakeCall

SpecProto == InitProto /\ [][NextProto]_vars

-----------------------------------------------------------------------------
(* Properties of the vendor request engine (SpecProto)                     *)

\* a vendor request on an open handle has returned
VendorRequestDone == pc = "done" /\ cfg.fn = "vendor_request" /\ ~dev.closed

\* the transport failed with Timeout N times and then succeeded
TimeoutsThenOk == \E n \in 0..MaxFails : cfg.script = Rep("timeout", n)

\* the request is one the engine re-issues to the interface recipient
KeyOpToDevice ==
    /\ cfg.req \in {VR_SET_DATA_ADDR, VR_SET_DATA_LEN, VR_PROG_STAGE2}
    /\ cfg.rt \in {REQUEST_TYPE_OUT, REQUEST_TYPE_VENDOR}

\* C5 as stated: a vendor request whose control transfer fails with Timeout
\* N times and then succeeds returns success for N < 5 and failure for N >= 5.
C5_AsStated ==
    (VendorRequestDone /\ TimeoutsThenOk)
        => (ret = THINGINO_SUCCESS <=> Len(cfg.script) < 5)

\* C5 amended: with the transport failing with Timeout N times and then
\* succeeding, a request that is not re-issued to the interface recipient
\* succeeds for N < 5 and fails with TRANSFER_FAILED for N >= 5; a key request
\* sent to the device recipient makes two transfers per attempt and so
\* succeeds for N < 10 and fails for N >= 10.
C5_RetryCount ==
    (VendorRequestDone /\ TimeoutsThenOk)
        => /\ ret \in {THINGINO_SUCCESS, THINGINO_ERROR_TRANSFER_FAILED}
           /\ ~KeyOpToDevice => (ret = THINGINO_SUCCESS <=> Len(cfg.script) < 5)
           /\ KeyOpToDevice => (ret = THINGINO_SUCCESS <=> Len(cfg.script) < 10)

C5_Witness ==
    /\ VendorRequestDone /\ KeyOpToDevice
    /\ cfg.script = Rep("timeout", 5)
    /\ ret = THINGINO_SUCCESS
    /\ Len(trace) > 6

\* the positions in the trace of the attempts of the request: the transfers
\* made with the caller's own request type
AttemptIdx == SelectSeq([i \in 1..Len(trace) |-> i],
                        LAMBDA i : trace[i].k = "ctl" /\ trace[i].rt = cfg.rt)

\* the last position of the attempt starting at p: the interface-recipient
\* re-issue when there is one
AttemptEnd(p) ==
    IF p < Len(trace) /\ trace[p + 1].k = "ctl" /\ trace[p + 1].rt # cfg.rt
    THEN p + 1 ELSE p

\* the attempt starting at p failed with a recoverable error and was not
\* rescued by the re-issue
AttemptFailedRecoverably(p) ==
    /\ trace[p].res \in {"timeout", "pipe", "nodev"}
    /\ trace[AttemptEnd(p)].res # "ok"

\* C6 as stated: the delay after the k-th failed attempt is the k-th entry of
\* {500, 1000, 2000, 3000, 5000} ms, for each of the up to 5 attempts.
C6_AsStated ==
    VendorRequestDone =>
        \A k \in 1..Len(AttemptIdx) :
            AttemptFailedRecoverably(AttemptIdx[k]) =>
                /\ k <= 5
                /\ AttemptEnd(AttemptIdx[k]) < Len(trace)
                /\ trace[AttemptEnd(AttemptIdx[k]) + 1]
                       = Sleep(<<500, 1000, 2000, 3000, 5000>>[k])

\* C6 amended: there are at most 5 attempts; the k-th failed attempt is
\* followed at once by a sleep of the k-th entry of {500, 1000, 2000, 3000} ms
\* for k = 1..4, and the 5th failed attempt by no sleep at all: the request
\* returns TRANSFER_FAILED and the 5000 ms entry is never used.
C6_BackOff ==
    VendorRequestDone =>
        /\ Len(AttemptIdx) <= 5
        /\ \A k \in 1..Len(AttemptIdx) :
              AttemptFailedRecoverably(AttemptIdx[k]) =>
                  IF k <= 4
                  THEN /\ AttemptEnd(AttemptIdx[k]) < Len(trace)
                       /\ trace[AttemptEnd(AttemptIdx[k]) + 1]
                              = Sleep(<<500, 1000, 2000, 3000>>[k])
                  ELSE /\ AttemptEnd(AttemptIdx[k]) = Len(trace)
                       /\ ret = THINGINO_ERROR_TRANSFER_FAILED
        /\ Len(SelectSeq(trace, LAMBDA e : e.k = "sleep")) <= 4

C6_Witness ==
    /\ VendorRequestDone
    /\ Len(AttemptIdx) = 5
    /\ AttemptFailedRecoverably(AttemptIdx[5])
    /\ SelectSeq(trace, LAMBDA e : e.k = "sleep")
           = <<Sleep(500), Sleep(1000), Sleep(2000), Sleep(3000)>>

\* C7 as stated: a control transfer that fails with an error other than
\* timeout, pipe or no-device fails the request at once: nothing follows it
\* (no retry, no sleep, no interface-recipient re-issue).
C7_AsStated ==
    VendorRequestDone =>
        \A i \in 1..Len(trace) :
            (trace[i].k = "ctl" /\ trace[i].res = "io")
                => (i = Len(trace) /\ ret = THINGINO_ERROR_TRANSFER_FAILED)

\* C7 amended: a transfer made with the caller's own request type that fails
\* with an error other than timeout, pipe or no-device fails the request at
\* once with TRANSFER_FAILED: no retry, no sleep, no interface-recipient
\* re-issue follows it.  (The error of an interface-recipient re-issue is not
\* inspected: any failure of it leads to the ordinary back-off and retry.)
C7_NonRecoverable ==
    VendorRequestDone =>
        \A i \in 1..Len(trace) :
            (trace[i].k = "ctl" /\ trace[i].rt = cfg.rt /\ trace[i].res = "io")
                => (i = Len(trace) /\ ret = THINGINO_ERROR_TRANSFER_FAILED)

C7_Witness ==
    /\ VendorRequestDone /\ KeyOpToDevice
    /\ Len(trace) = 4
    /\ trace[1].res = "timeout" /\ trace[2].res = "pipe"
    /\ trace[3].k = "sleep"
    /\ trace[4].k = "ctl" /\ trace[4].res = "io"
    /\ ret = THINGINO_ERROR_TRANSFER_FAILED

\* C10: a PROG_STAGE2 whose control transfer ends in a timeout or a pipe error
\* is reported as success by protocol_prog_stage2.
C10_ProgStage2Tolerant ==
    (/\ pc = "done" /\ cfg.fn = "prog_stage2" /\ ~dev.closed
     /\ trace[Len(trace)].k = "ctl"
     /\ trace[Len(trace)].res \in {"timeout", "pipe"})
        => ret = THINGINO_SUCCESS

C10_Witness ==
    /\ pc = "done" /\ cfg.fn = "prog_stage2" /\ ~dev.closed
    /\ Len(trace) = 14
    /\ trace[Len(trace)].k = "ctl"
    /\ trace[Len(trace)].req = VR_PROG_STAGE2
    /\ trace[Len(trace)].res = "pipe"
    /\ ret = THINGINO_SUCCESS

-----------------------------------------------------------------------------
(* src/usb/device.c: usb_device_get_cpu_info, usb_device_bulk_transfer,    *)
(* usb_device_close, usb_device_init                                       *)

\* more trace events
Bulk(ep, off, len, tmo, res, n) ==
    [k |-> "bulk", ep |-> ep, off |-> off, len |-> len, tmo |-> tmo, res |-> res, n |-> n]
Note(what) == [k |-> what]

\* A reply to GET_CPU_INFO: the number of bytes returned and the first eight
\* of them, one character each; "NUL" is a byte outside 0x20..0x7E.
CpuReply(len, magic) == [len |-> len, magic |-> magic]
MagicT31V == <<"T", "3", "1", "V", "NUL", "NUL", "NUL", "NUL">>
MagicBoot == <<"B", "o", "o", "t", "4", "7", "x", "1">>
MagicSpacedBOOT == <<" ", "B", "O", "O", "T", "4", "7", "3">>

is_printable(byte) == byte # "NUL"
\* printable bytes, spaces skipped
cpu_str(magic) == SelectSeq(magic, LAMBDA b : is_printable(b) /\ b # " ")
\* printable bytes, spaces kept
clean_cpu_str(magic) == SelectSeq(magic, is_printable)
\* strncmp(str, prefix, 4) == 0
strncmp4_eq(str, prefix) == Len(str) >= 4 /\ SubSeq(str, 1, 4) = prefix

cpu_info_stage(magic) ==
    IF \/ strncmp4_eq(cpu_str(magic), <<"B", "o", "o", "t">>)
       \/ strncmp4_eq(cpu_str(magic), <<"B", "O", "O", "T">>)
    THEN STAGE_FIRMWARE ELSE STAGE_BOOTROM

CpuCtl(rt, tmo, res) == Ctl(rt, VR_GET_CPU_INFO, 0, 0, 16, tmo, res)

\* s scripts the up to four control transfers, claim_ok is what
\* libusb_claim_interface reports, reply is what the device answers.
\* Result: [status, ev, used, stage].
usb_device_get_cpu_info(d, s, claim_ok, reply) ==
    IF d.closed
    THEN [status |-> THINGINO_ERROR_INVALID_PARAMETER, ev |-> << >>, used |-> 0,
          stage |-> STAGE_BOOTROM]
    ELSE
    LET e1 == CpuCtl(REQUEST_TYPE_VENDOR, 1200, Outcome(s, 1))
        e2 == CpuCtl(REQUEST_TYPE_VENDOR_IF, 1200, Outcome(s, 2))
        e3 == CpuCtl(REQUEST_TYPE_VENDOR_IF, 1500, Outcome(s, 3))
        e4 == CpuCtl(REQUEST_TYPE_VENDOR, 1500, Outcome(s, 4))
        ev == IF e1.res = "ok" THEN <<e1>>
              ELSE IF e2.res = "ok" THEN <<e1, e2>>
              ELSE IF ~claim_ok THEN <<e1, e2, Note("claim_failed")>>
              ELSE IF e3.res = "ok" THEN <<e1, e2, Note("claim"), e3, Note("release")>>
              ELSE <<e1, e2, Note("claim"), e3, e4, Note("release")>>
        ctls == SelectSeq(ev, LAMBDA e : e.k = "ctl")
        result == ctls[Len(ctls)].res
    IN  IF result # "ok"
        THEN [status |-> THINGINO_ERROR_TRANSFER_FAILED, ev |-> ev, used |-> Len(ctls),
              stage |-> STAGE_BOOTROM]
        ELSE IF reply.len < 8
        THEN [status |-> THINGINO_ERROR_PROTOCOL, ev |-> ev, used |-> Len(ctls),
              stage |-> STAGE_BOOTROM]
        ELSE [status |-> THINGINO_SUCCESS, ev |-> ev, used |-> Len(ctls),
              stage |-> cpu_info_stage(reply.magic)]

\* What one libusb_bulk_transfer can report: all bytes moved, about half of
\* them, none, or an error; "timeout_full" is LIBUSB_ERROR_TIMEOUT with the
\* byte counter equal to the request length.
BulkErrors == {"timeout", "timeout_full", "pipe", "nodev", "io"}
BulkResults == {"ok", "half", "zero"} \cup BulkErrors
bulk_transferred(res, length) ==
    CASE res \in {"ok", "timeout_full"} -> length
      [] res = "half" -> length \div 2
      [] OTHER -> 0

\* Result: [status, ev, n]
usb_device_bulk_transfer(d, res, endpoint, off, length, timeout) ==
    IF d.closed
    THEN [status |-> THINGINO_ERROR_INVALID_PARAMETER, ev |-> << >>, n |-> 0]
    ELSE LET n == bulk_transferred(res, length)
             e == Bulk(endpoint, off, length, timeout, res, n)
         IN  IF res \in {"ok", "half", "zero"}
             THEN [status |-> THINGINO_SUCCESS, ev |-> <<e>>, n |-> n]
             ELSE [status |-> THINGINO_ERROR_TRANSFER_FAILED, ev |-> <<e>>, n |-> n]

\* usb_device_close: libusb_close unless already closed
\* a close that forgets to set device->closed
usb_device_close_unmarked(d) == d
usb_device_close(d) == [d EXCEPT !.closed = TRUE]
close_events(d) == IF d.closed THEN << >> ELSE <<[k |-> "close", ctx |-> d.hctx]>>

\* usb_device_init on a bus whose device list is devices; open_ok is what
\* libusb_open / libusb_get_device_descriptor report.
\* Result: [status, d, ev]
FirstAt(devices, bus, address) ==
    LET hits == SelectSeq(devices, LAMBDA u : u.bus = bus /\ u.address = address)
    IN  IF hits = << >> THEN [found |-> FALSE] ELSE [found |-> TRUE, u |-> hits[1]]

init_stage(old_stage) == STAGE_BOOTROM

usb_device_init(d, devices, bus, address, open_ok) ==
    LET f == FirstAt(devices, bus, address)
    IN  IF ~f.found
        THEN [status |-> THINGINO_ERROR_DEVICE_NOT_FOUND, d |-> d, ev |-> << >>]
        ELSE IF ~open_ok
        THEN [status |-> THINGINO_ERROR_OPEN_FAILED, d |-> d, ev |-> << >>]
        ELSE [status |-> THINGINO_SUCCESS,
              d |-> [d EXCEPT !.closed = FALSE, !.hctx = d.ctx,
                              !.bus = bus, !.address = address,
                              !.vendor = f.u.vendor, !.product = f.u.product,
                              !.stage = init_stage(d.stage)],
              ev |-> <<[k |-> "open", ctx |-> d.ctx, bus |-> bus, address |-> address,
                        vendor |-> f.u.vendor, product |-> f.u.product]>>]

-----------------------------------------------------------------------------
(* src/bootstrap.c: bootstrap_transfer_data, bootstrap_load_data_to_memory, *)
(* bootstrap_program_stage2                                                 *)

Min(a, b) == IF a < b THEN a ELSE b

chunk_size == 1048576
transfer_max_retries == 3

\* 5 s base + 1 s per 64 KiB, between 5 s and 30 s
transfer_timeout(current_chunk_size) ==
    LET t == 5000 + (current_chunk_size \div 65536) * 1000
    IN  IF t > 30000 THEN 30000 ELSE IF t < 5000 THEN 5000 ELSE t

\* The chunk loop, entered at one pass of the retry loop: offset bytes are
\* written, current_chunk_size bytes are asked for, s[i] scripts the transfer.
\* Result: [status, ev, used, offset]
RECURSIVE transfer_loop(_, _, _, _, _, _, _, _)
transfer_loop(d, s, size, offset, current_chunk_size, retry, i, ev) ==
    LET b == usb_device_bulk_transfer(d, Outcome(s, i), ENDPOINT_OUT, offset,
                                      current_chunk_size,
                                      transfer_timeout(current_chunk_size))
        ev1 == ev \o b.ev
        used == IF d.closed THEN i - 1 ELSE i
        \* the retry loop is left with new_offset bytes written
        next_chunk(new_offset) ==
            IF new_offset < size
            THEN transfer_loop(d, s, size, new_offset,
                               Min(chunk_size, size - new_offset), 0, used + 1,
                               IF size > 100 * 1024 THEN Append(ev1, Sleep(10)) ELSE ev1)
            ELSE [status |-> THINGINO_SUCCESS, ev |-> ev1, used |-> used,
                  offset |-> new_offset]
    IN  IF b.status = THINGINO_SUCCESS /\ b.n > 0
        THEN IF b.n = current_chunk_size
             THEN next_chunk(offset + b.n)
             ELSE IF retry + 1 < transfer_max_retries
             THEN transfer_loop(d, s, size, offset + b.n, current_chunk_size - b.n,
                                retry + 1, used + 1, ev1)
             ELSE next_chunk(offset + b.n)
        ELSE IF b.status # THINGINO_SUCCESS
        THEN IF retry < transfer_max_retries - 1
             THEN transfer_loop(d, s, size, offset, current_chunk_size, retry + 1,
                                used + 1, Append(ev1, Sleep(50)))
             ELSE [status |-> b.status, ev |-> ev1, used |-> used, offset |-> offset]
        ELSE IF retry = transfer_max_retries - 1
        THEN [status |-> THINGINO_ERROR_TRANSFER_FAILED, ev |-> ev1, used |-> used,
              offset |-> offset]
        ELSE transfer_loop(d, s, size, offset, current_chunk_size, retry + 1,
                           used + 1, ev1)

bootstrap_transfer_data(d, s, size) ==
    IF size = 0
    THEN [status |-> THINGINO_ERROR_INVALID_PARAMETER, ev |-> << >>, used |-> 0,
          offset |-> 0]
    ELSE transfer_loop(d, s, size, 0, Min(chunk_size, size), 0, 1, << >>)

default_uboot_address == U32(32784, 0)
no_override == U32(0, 0)
uboot_address(override) == IF override # no_override THEN override ELSE default_uboot_address

skips_flush_cache(variant) == variant \in {"T41", "T41N"}

\* the status of protocol_prog_stage2 is assigned and never read
stage2_result(result) == THINGINO_SUCCESS

-----------------------------------------------------------------------------
(* src/usb/manager.c: usb_manager_find_devices_fast, usb_manager_open_device *)

UsbDevice(bus, address, vendor, product) ==
    [bus |-> bus, address |-> address, vendor |-> vendor, product |-> product]

fast_accepts(u) ==
    /\ u.vendor \in {VENDOR_ID_INGENIC, VENDOR_ID_INGENIC_ALT}
    /\ u.product \in {PRODUCT_ID_BOOTROM2, PRODUCT_ID_BOOTROM, PRODUCT_ID_FIRMWARE,
                      PRODUCT_ID_FIRMWARE2}

\* the device_info_t list: accepted devices in bus order, every one reported
\* as STAGE_BOOTROM / VARIANT_T31X
usb_manager_find_devices_fast(devices) ==
    LET accepted == SelectSeq(devices, fast_accepts)
    IN  [i \in 1..Len(accepted) |->
            [bus |-> accepted[i].bus, address |-> accepted[i].address,
             vendor |-> accepted[i].vendor, product |-> accepted[i].product,
             stage |-> STAGE_BOOTROM, variant |-> "T31X"]]

\* a fresh usb_device_t with info copied and context = the manager's, then
\* usb_device_init.  Result: [status, d, ev]
usb_manager_open_device(context, info, devices, open_ok) ==
    usb_device_init(
        [stage |-> info.stage, variant |-> info.variant, closed |-> TRUE,
         bus |-> info.bus, address |-> info.address, vendor |-> info.vendor,
         product |-> info.product, ctx |-> context, hctx |-> context],
        devices, info.bus, info.address, open_ok)

-----------------------------------------------------------------------------
(* SpecBoot: bootstrap_ensure_bootstrapped / bootstrap_device, one action  *)
(* per call the function makes.  The environment decides what each         *)
(* transfer reports; MaxFaults bounds how many calls it disturbs.          *)

MaxFaults == 2
\* the program polls up to 2000 times and refreshes the handle after 200
\* polls without an answer; the model scales both down
max_polls == 3
reopen_threshold == 1
required_successes == 3
max_reopens == 1

NoFault == << >>
CtlScripts == {NoFault, <<"timeout">>, <<"io">>, Rep("timeout", 10), Rep("pipe", 10)}
BulkScripts == {NoFault, <<"half">>, <<"timeout_full">>, <<"io", "io", "io">>,
                <<"zero", "zero", "zero">>}
\* what a GET_CPU_INFO meets: the results of its transfers, that of
\* libusb_claim_interface, and the number of bytes the device answers
CpuOutcome(s, claim_ok, len) == [s |-> s, claim_ok |-> claim_ok, len |-> len]
CpuOk == CpuOutcome(NoFault, TRUE, 8)
CpuOutcomes ==
    {CpuOutcome(Rep("timeout", n), TRUE, 8) : n \in 0..4}
    \cup {CpuOutcome(Rep("timeout", 2), FALSE, 8), CpuOutcome(NoFault, TRUE, 4)}

\* the device under bootstrap and what the bus can look like once stage 1 runs
Dev0 == UsbDevice(1, 5, VENDOR_ID_INGENIC, PRODUCT_ID_BOOTROM2)
DevMoved == UsbDevice(1, 6, VENDOR_ID_INGENIC, PRODUCT_ID_BOOTROM2)
DevOther == UsbDevice(1, 3, VENDOR_ID_INGENIC_ALT, PRODUCT_ID_FIRMWARE)
DevAlt == UsbDevice(1, 6, VENDOR_ID_INGENIC, PRODUCT_ID_BOOTROM3)
BusMoved == <<DevMoved>>
ReenumBuses == {BusMoved, <<Dev0>>, << >>, <<DevOther, DevMoved>>, <<DevAlt>>}

BootVariants == {"T31ZX", "T41", "T20"}
BootBlobs ==
    {[config_size |-> 324, spl_size |-> 10000, uboot_size |-> 250000,
      override |-> no_override],
     [config_size |-> 324, spl_size |-> 10000, uboot_size |-> 1148576,
      override |-> no_override],
     [config_size |-> 324, spl_size |-> 10000, uboot_size |-> 250000,
      override |-> U32(32800, 0)]}

BootConfigs ==
    {[fn |-> "bootstrap", variant |-> v, skip_ddr |-> sk, fw_result |-> fr,
      magic |-> mg, blobs |-> bl, stage0 |-> st]
        : v \in BootVariants, sk \in BOOLEAN,
          fr \in {THINGINO_SUCCESS, THINGINO_ERROR_FILE_IO},
          mg \in {MagicT31V, MagicBoot}, bl \in BootBlobs,
          st \in {STAGE_BOOTROM, STAGE_FIRMWARE}}

Loc0 ==
    [faults |-> 0, poll_count |-> 0, consecutive_successes |-> 0, any_success |-> FALSE,
     reopens_done |-> 0, previous_variant |-> "none", manager |-> "none"]

InitBoot ==
    /\ cfg \in BootConfigs
    /\ dev = Handle(cfg.stage0, cfg.variant, FALSE, Dev0.bus, Dev0.address,
                    Dev0.vendor, Dev0.product)
    /\ usb = <<Dev0>>
    /\ pc \in {"ensure", "device"}
    /\ trace = << >>
    /\ ret = "none"
    /\ loc = Loc0

\* the environment disturbs a call (cost 1) only while MaxFaults allows it,
\* and a call that makes no transfer cannot be disturbed
Spend(cost) ==
    /\ loc.faults + cost <= MaxFaults
    /\ loc' = [loc EXCEPT !.faults = @ + cost]
Cost(s) == IF s = NoFault THEN 0 ELSE 1
CanMeet(s) == dev.closed => s = NoFault

\* return status from the function
Return(status, ev) ==
    /\ trace' = trace \o ev
    /\ ret' = status
    /\ pc' = "done"

\* a call whose failure is returned and whose success leads on to next
Call(r, next) ==
    IF r.status # THINGINO_SUCCESS
    THEN Return(r.status, r.ev)
    ELSE /\ trace' = trace \o r.ev
         /\ pc' = next
         /\ ret' = ret

already_in_firmware(stage) == stage = STAGE_FIRMWARE
skips_bootstrap_never(stage) == FALSE
skips_bootstrap(stage) == stage # STAGE_BOOTROM

\* bootstrap_ensure_bootstrapped
BootEnsure ==
    /\ pc = "ensure"
    /\ IF already_in_firmware(dev.stage)
       THEN Return(THINGINO_SUCCESS, << >>)
       ELSE pc' = "device" /\ UNCHANGED <<trace, ret>>
    /\ UNCHANGED <<dev, usb, cfg, loc>>

\* bootstrap_device: the stage guard
BootEntry ==
    /\ pc = "device"
    /\ IF skips_bootstrap(dev.stage)
       THEN Return(THINGINO_SUCCESS, << >>)
       ELSE pc' = "cpu_info" /\ UNCHANGED <<trace, ret>>
    /\ UNCHANGED <<dev, usb, cfg, loc>>

\* the initial GET_CPU_INFO: a failure is only logged
BootGetCpuInfo ==
    /\ pc = "cpu_info"
    /\ \E o \in CpuOutcomes :
          LET r == usb_device_get_cpu_info(dev, o.s, o.claim_ok, CpuReply(o.len, cfg.magic))
          IN  /\ Spend(IF o = CpuOk THEN 0 ELSE 1)
              /\ trace' = trace \o r.ev
              /\ dev' = IF r.status = THINGINO_SUCCESS /\ r.stage = STAGE_FIRMWARE
                        THEN [dev EXCEPT !.stage = STAGE_FIRMWARE] ELSE dev
    /\ pc' = "load_fw"
    /\ UNCHANGED <<usb, cfg, ret>>

\* firmware_load / firmware_load_from_files
BootLoadFirmware ==
    /\ pc = "load_fw"
    /\ IF cfg.fw_result # THINGINO_SUCCESS
       THEN Return(cfg.fw_result, << >>)
       ELSE /\ pc' = IF cfg.skip_ddr THEN "spl_addr" ELSE "ddr_addr"
            /\ UNCHANGED <<trace, ret>>
    /\ UNCHANGED <<dev, usb, cfg, loc>>

\* bootstrap_load_data_to_memory, its three calls
LoadSetAddress(here, next, address) ==
    /\ pc = here
    /\ \E s \in CtlScripts :
          /\ CanMeet(s) /\ Spend(Cost(s))
          /\ Call(protocol_set_data_address(dev, s, address), next)
    /\ UNCHANGED <<dev, usb, cfg>>

LoadSetLength(here, next, size) ==
    /\ pc = here
    /\ \E s \in CtlScripts :
          /\ CanMeet(s) /\ Spend(Cost(s))
          /\ Call(protocol_set_data_length(dev, s, size), next)
    /\ UNCHANGED <<dev, usb, cfg>>

LoadTransfer(here, next, size) ==
    /\ pc = here
    /\ \E s \in BulkScripts :
          /\ CanMeet(s) /\ Spend(Cost(s))
          /\ Call(bootstrap_transfer_data(dev, s, size), next)
    /\ UNCHANGED <<dev, usb, cfg>>

ddr_address == U32(32768, 4096)
spl_address == U32(32768, 6144)

BootDdrAddress == LoadSetAddress("ddr_addr", "ddr_len", ddr_address)
BootDdrLength == LoadSetLength("ddr_len", "ddr_data", cfg.blobs.config_size)
BootDdrTransfer == LoadTransfer("ddr_data", "spl_addr", cfg.blobs.config_size)
BootSplAddress == LoadSetAddress("spl_addr", "spl_len", spl_address)
BootSplLength == LoadSetLength("spl_len", "spl_data", cfg.blobs.spl_size)
BootSplTransfer == LoadTransfer("spl_data", "exec_len", cfg.blobs.spl_size)

exec_length == 28672

\* protocol_set_data_length(device, 0x7000)
BootSetExecLength == LoadSetLength("exec_len", "prog1", exec_length)

\* protocol_prog_stage1(device, 0x80001800)
BootProgStage1 ==
    /\ pc = "prog1"
    /\ \E s \in CtlScripts :
          /\ CanMeet(s) /\ Spend(Cost(s))
          /\ Call(protocol_prog_stage1(dev, s, spl_address), "after_spl")
    /\ UNCHANGED <<dev, usb, cfg>>

keeps_handle_always(variant) == TRUE
keeps_handle(variant) == variant \in {"T41", "T41N"}

\* after PROG_STAGE1: T41/T41N keep the handle and sleep 8 s; the others close
\* it and sleep 3 s while the device re-enumerates
BootAfterStage1 ==
    /\ pc = "after_spl"
    /\ IF keeps_handle(dev.variant)
       THEN /\ trace' = Append(trace, Sleep(8000))
            /\ pc' = "post_spl"
            /\ loc' = [loc EXCEPT !.previous_variant = dev.variant]
            /\ UNCHANGED <<dev, usb>>
       ELSE /\ trace' = (trace \o close_events(dev)) \o <<Sleep(3000)>>
            /\ dev' = usb_device_close(dev)
            /\ pc' = "reenum"
            /\ \E b \in ReenumBuses :
                  /\ usb' = b
                  /\ loc.faults + (IF b = BusMoved THEN 0 ELSE 1) <= MaxFaults
                  /\ loc' = [loc EXCEPT !.previous_variant = dev.variant,
                                        !.faults = @ + (IF b = BusMoved THEN 0 ELSE 1)]
    /\ UNCHANGED <<cfg, ret>>

\* the context of the temporary manager
TempContext == 2

\* the re-enumeration as it would be with usb_manager_cleanup called on the
\* temporary manager once the device is open
BootReenumerate_cleanup ==
    /\ pc = "reenum"
    /\ \E env \in {"ok", "init_failed", "open_failed"} :
          LET found == usb_manager_find_devices_fast(usb)
              opened == usb_manager_open_device(TempContext, found[1], usb,
                                                env # "open_failed")
              init_ev == <<[k |-> "libusb_init", ctx |-> TempContext]>>
              exit_ev == <<[k |-> "libusb_exit", ctx |-> TempContext]>>
              enum_ev == <<[k |-> "enumerate", count |-> Len(found)]>>
          IN  /\ env = "open_failed" => found # << >>
              /\ Spend(IF env = "ok" THEN 0 ELSE 1)
              /\ IF env = "init_failed"
                 THEN Return(THINGINO_ERROR_INIT_FAILED, << >>) /\ dev' = dev
                 ELSE IF found = << >>
                 THEN /\ Return(THINGINO_ERROR_DEVICE_NOT_FOUND,
                                (init_ev \o enum_ev) \o exit_ev)
                      /\ dev' = dev
                 ELSE IF opened.status # THINGINO_SUCCESS
                 THEN /\ Return(opened.status, (init_ev \o enum_ev) \o exit_ev)
                      /\ dev' = dev
                 ELSE /\ trace' = (((trace \o init_ev) \o enum_ev) \o opened.ev) \o exit_ev
                      /\ dev' = [dev EXCEPT !.hctx = opened.d.hctx,
                                            !.stage = opened.d.stage,
                                            !.bus = opened.d.bus,
                                            !.address = opened.d.address,
                                            !.vendor = opened.d.vendor,
                                            !.product = opened.d.product,
                                            !.variant = loc.previous_variant,
                                            !.closed = FALSE]
                      /\ pc' = "post_spl"
                      /\ ret' = ret
    /\ UNCHANGED <<usb, cfg>>

\* usb_manager_init, usb_manager_find_devices_fast, found_devices[0],
\* usb_manager_open_device, and the copy into the caller's handle
BootReenumerate ==
    /\ pc = "reenum"
    /\ \E env \in {"ok", "init_failed", "open_failed"} :
          LET found == usb_manager_find_devices_fast(usb)
              opened == usb_manager_open_device(TempContext, found[1], usb,
                                                env # "open_failed")
              init_ev == <<[k |-> "libusb_init", ctx |-> TempContext]>>
              exit_ev == <<[k |-> "libusb_exit", ctx |-> TempContext]>>
              enum_ev == <<[k |-> "enumerate", count |-> Len(found)]>>
          IN  /\ env = "open_failed" => found # << >>
              /\ Spend(IF env = "ok" THEN 0 ELSE 1)
              /\ IF env = "init_failed"
                 THEN Return(THINGINO_ERROR_INIT_FAILED, << >>) /\ dev' = dev
                 ELSE IF found = << >>
                 THEN /\ Return(THINGINO_ERROR_DEVICE_NOT_FOUND,
                                (init_ev \o enum_ev) \o exit_ev)
                      /\ dev' = dev
                 ELSE IF opened.status # THINGINO_SUCCESS
                 THEN /\ Return(opened.status, (init_ev \o enum_ev) \o exit_ev)
                      /\ dev' = dev
                 ELSE /\ trace' = ((trace \o init_ev) \o enum_ev) \o opened.ev
                      /\ dev' = [dev EXCEPT !.hctx = opened.d.hctx,
                                            !.stage = opened.d.stage,
                                            !.bus = opened.d.bus,
                                            !.address = opened.d.address,
                                            !.vendor = opened.d.vendor,
                                            !.product = opened.d.product,
                                            !.variant = loc.previous_variant,
                                            !.closed = FALSE]
                      /\ pc' = "post_spl"
                      /\ ret' = ret
    /\ UNCHANGED <<usb, cfg>>

\* skip_reenumeration: T41/T41N refresh the handle at the same address, the
\* others go on to poll GET_CPU_INFO
BootPostSpl ==
    /\ pc = "post_spl"
    /\ IF keeps_handle(dev.variant)
       THEN \E open_ok \in BOOLEAN :
               LET r == usb_device_init(usb_device_close(dev), usb, dev.bus,
                                        dev.address, open_ok)
               IN  /\ Spend(IF open_ok THEN 0 ELSE 1)
                   /\ dev' = r.d
                   /\ trace' = (((trace \o <<Sleep(100)>>) \o close_events(dev))
                                \o <<Sleep(200)>>) \o
                               (IF r.status = THINGINO_SUCCESS
                                THEN r.ev \o <<Sleep(50)>> ELSE << >>)
                   /\ pc' = "s2_addr"
       ELSE /\ pc' = "poll"
            /\ loc' = [loc EXCEPT !.poll_count = 0, !.consecutive_successes = 0,
                                  !.any_success = FALSE, !.reopens_done = 0]
            /\ UNCHANGED <<dev, trace>>
    /\ UNCHANGED <<usb, cfg, ret>>

\* a poller that takes the first successful reply for readiness
spl_ready_any(consecutive_successes) == consecutive_successes >= 1
\* consecutive_successes >= required_successes
spl_ready(consecutive_successes) == consecutive_successes >= required_successes

\* one pass of the GET_CPU_INFO polling loop
BootPoll ==
    /\ pc = "poll"
    /\ loc.poll_count < max_polls
    /\ \E o \in CpuOutcomes, open_ok \in BOOLEAN :
          LET r == usb_device_get_cpu_info(dev, o.s, o.claim_ok, CpuReply(o.len, cfg.magic))
              ok == r.status = THINGINO_SUCCESS
              reopen == /\ ~ok /\ ~loc.any_success
                        /\ (loc.poll_count + 1) % reopen_threshold = 0
                        /\ loc.reopens_done < max_reopens
              rr == usb_device_init(usb_device_close(dev), usb, dev.bus, dev.address,
                                    open_ok)
              cost == (IF o = CpuOk THEN 0 ELSE 1) + (IF open_ok THEN 0 ELSE 1)
              ready == ok /\ spl_ready(loc.consecutive_successes + 1)
              reopen_ev == (close_events(dev) \o <<Sleep(200)>>) \o
                           (IF rr.status = THINGINO_SUCCESS
                            THEN rr.ev \o <<Sleep(50)>> ELSE << >>)
          IN  /\ dev.closed => o = CpuOk
              /\ ~open_ok => reopen
              /\ loc.faults + cost <= MaxFaults
              /\ dev' = IF reopen THEN rr.d ELSE dev
              /\ trace' = (trace \o r.ev) \o
                          (IF ready THEN << >>
                           ELSE (IF reopen THEN reopen_ev ELSE << >>) \o <<Sleep(10)>>)
              /\ loc' = [loc EXCEPT
                            !.faults = @ + cost,
                            !.any_success = @ \/ ok,
                            !.consecutive_successes = IF ok THEN @ + 1 ELSE 0,
                            !.reopens_done =
                                IF reopen /\ rr.status = THINGINO_SUCCESS THEN @ + 1 ELSE @,
                            !.poll_count = IF ready THEN @ ELSE @ + 1]
              /\ pc' = IF ready \/ loc.poll_count + 1 >= max_polls
                       THEN "s2_addr" ELSE "poll"
    /\ UNCHANGED <<usb, cfg, ret>>

\* bootstrap_program_stage2, its five calls
BootStage2Address ==
    LoadSetAddress("s2_addr", "s2_len", uboot_address(cfg.blobs.override))

\* a failed SET_DATA_LEN is only logged
BootStage2Length ==
    /\ pc = "s2_len"
    /\ \E s \in CtlScripts :
          /\ CanMeet(s) /\ Spend(Cost(s))
          /\ trace' = trace \o protocol_set_data_length(dev, s, cfg.blobs.uboot_size).ev
    /\ pc' = "s2_data"
    /\ UNCHANGED <<dev, usb, cfg, ret>>

BootStage2Transfer ==
    /\ pc = "s2_data"
    /\ \E s \in BulkScripts :
          LET r == bootstrap_transfer_data(dev, s, cfg.blobs.uboot_size)
          IN  /\ CanMeet(s) /\ Spend(Cost(s))
              /\ Call([r EXCEPT !.ev = IF r.status = THINGINO_SUCCESS
                                        THEN Append(@, Sleep(500)) ELSE @],
                      IF skips_flush_cache(dev.variant) THEN "s2_prog" ELSE "s2_flush")
    /\ UNCHANGED <<dev, usb, cfg>>

BootStage2Flush ==
    /\ pc = "s2_flush"
    /\ \E s \in CtlScripts :
          /\ CanMeet(s) /\ Spend(Cost(s))
          /\ Call(protocol_flush_cache(dev, s), "s2_prog")
    /\ UNCHANGED <<dev, usb, cfg>>

\* protocol_prog_stage2, sleep(1), return THINGINO_SUCCESS; bootstrap_device
\* then returns THINGINO_SUCCESS as well
BootProgStage2 ==
    /\ pc = "s2_prog"
    /\ \E s \in CtlScripts :
          LET r == protocol_prog_stage2(dev, s, uboot_address(cfg.blobs.override))
          IN  /\ CanMeet(s) /\ Spend(Cost(s))
              /\ Return(stage2_result(r.status), Append(r.ev, Sleep(1000)))
    /\ UNCHANGED <<dev, usb, cfg>>

NextBoot ==
    \/ BootEnsure
    \/ BootEntry
    \/ BootGetCpuInfo
    \/ BootLoadFirmware
    \/ BootDdrAddress
    \/ BootDdrLength
    \/ BootDdrTransfer
    \/ BootSplAddress
    \/ BootSplLength
    \/ BootSplTransfer
    \/ BootSetExecLength
    \/ BootProgStage1
    \/ BootAfterStage1
    \/ BootReenumerate
    \/ BootPostSpl
    \/ BootPoll
    \/ BootStage2Address
    \/ BootStage2Length
    \/ BootStage2Transfer
    \/ BootStage2Flush
    \/ BootProgStage2

SpecBoot == InitBoot /\ [][NextBoot]_vars

-----------------------------------------------------------------------------
(* Properties of the bootstrap (SpecBoot)                                  *)

\* the handle as it was when the bootstrap was entered
Handle0 ==
    Handle(cfg.stage0, cfg.variant, FALSE, Dev0.bus, Dev0.address, Dev0.vendor,
           Dev0.product)

BootDone == pc = "done" /\ cfg.fn = "bootstrap"

\* C1: ensure_firmware_stage (bootstrap_ensure_bootstrapped, and
\* bootstrap_device entered directly) on a handle whose stage is Firmware
\* returns success, makes no USB transfer and changes no field of the handle.
C1_FirmwareStageNoOp ==
    (BootDone /\ cfg.stage0 = STAGE_FIRMWARE)
        => (ret = THINGINO_SUCCESS /\ trace = << >> /\ dev = Handle0)

C1_Witness ==
    /\ BootDone /\ cfg.stage0 = STAGE_FIRMWARE
    /\ ret = THINGINO_SUCCESS /\ trace = << >> /\ dev.stage = STAGE_FIRMWARE

\* the transport reported success for every transfer and the bus behaved
FaultFree == loc.faults = 0

\* C2 as stated: a bootstrap started from RomBoot that returns success on an
\* all-success transport leaves the handle's stage at Firmware.
C2_AsStated ==
    (BootDone /\ cfg.stage0 = STAGE_BOOTROM /\ FaultFree /\ ret = THINGINO_SUCCESS)
        => dev.stage = STAGE_FIRMWARE

\* the control transfer at i failed and the same request was sent again
\* after it, with at most sleeps in between
Retried(i) ==
    \E j \in (i + 1)..Len(trace) :
        /\ trace[j].k = "ctl" /\ trace[j].req = trace[i].req
        /\ \A m \in (i + 1)..(j - 1) : trace[m].k = "sleep"

\* the SET_DATA_LEN at i belongs to the stage-2 upload
InStage2Upload(i) ==
    \E j \in 1..(i - 1) :
        /\ trace[j].k = "ctl" /\ trace[j].req = VR_SET_DATA_ADDR
        /\ U32(trace[j].val, trace[j].idx) = uboot_address(cfg.blobs.override)

\* a blob of size bytes went out completely
BlobWritten(size) ==
    \E i \in 1..Len(trace) :
        /\ trace[i].k = "bulk" /\ trace[i].res \in {"ok", "half"}
        /\ trace[i].off + trace[i].n = size

\* C3 as stated: a bootstrap returns success only if every Protocol step it
\* issued succeeded, apart from the tolerated ones (GET_CPU_INFO, the stage-2
\* SET_DATA_LEN, a PROG_STAGE2 ending in timeout or pipe), in particular only
\* if the stage-1 and stage-2 blobs went out completely and PROG_STAGE1
\* succeeded; otherwise it returns the failing step's typed error.
C3_AsStated ==
    (BootDone /\ cfg.stage0 = STAGE_BOOTROM) =>
        /\ ret = THINGINO_SUCCESS =>
              /\ BlobWritten(cfg.blobs.spl_size)
              /\ BlobWritten(cfg.blobs.uboot_size)
              /\ \E i \in 1..Len(trace) :
                    /\ trace[i].k = "ctl" /\ trace[i].req = VR_PROG_STAGE1
                    /\ trace[i].res = "ok"
              /\ \A i \in 1..Len(trace) :
                    (trace[i].k = "ctl" /\ trace[i].res # "ok") =>
                        \/ trace[i].req = VR_GET_CPU_INFO
                        \/ Retried(i)
                        \/ trace[i].req = VR_SET_DATA_LEN /\ InStage2Upload(i)
                        \/ /\ trace[i].req = VR_PROG_STAGE2
                           /\ trace[i].res \in {"timeout", "pipe"}
        /\ ret # THINGINO_SUCCESS =>
              ret \in {THINGINO_ERROR_INIT_FAILED, THINGINO_ERROR_DEVICE_NOT_FOUND,
                       THINGINO_ERROR_OPEN_FAILED, THINGINO_ERROR_TRANSFER_FAILED,
                       THINGINO_ERROR_INVALID_PARAMETER, THINGINO_ERROR_FILE_IO}

\* scenario S2: a T31ZX answering "T31V", blobs of 324, 10000 and 250000
\* bytes, nothing skipped, the default stage-2 address
ScenarioS2 ==
    /\ cfg.fn = "bootstrap" /\ cfg.variant = "T31ZX" /\ ~cfg.skip_ddr
    /\ cfg.magic = MagicT31V /\ cfg.fw_result = THINGINO_SUCCESS
    /\ cfg.stage0 = STAGE_BOOTROM
    /\ cfg.blobs = [config_size |-> 324, spl_size |-> 10000, uboot_size |-> 250000,
                    override |-> U32(0, 0)]

\* patterns of trace events
OkCtl(req, val, idx) == [k |-> "ctl", req |-> req, val |-> val, idx |-> idx]
OkBulkOut(len) == [k |-> "bulk", len |-> len]
Wait(ms) == [k |-> "wait", ms |-> ms]

Matches(e, p) ==
    CASE p.k = "ctl" -> /\ e.k = "ctl" /\ e.res = "ok"
                        /\ e.req = p.req /\ e.val = p.val /\ e.idx = p.idx
      [] p.k = "bulk" -> /\ e.k = "bulk" /\ e.res = "ok" /\ e.ep = 1
                         /\ e.off = 0 /\ e.len = p.len /\ e.n = p.len
      [] p.k = "wait" -> e.k = "sleep" /\ e.ms >= p.ms
      [] OTHER -> e.k = p.k

\* the patterns pats are met, in their order, by events of tr from i on
RECURSIVE MatchFrom(_, _, _)
MatchFrom(tr, pats, i) ==
    IF pats = << >> THEN TRUE
    ELSE IF i > Len(tr) THEN FALSE
    ELSE IF Matches(tr[i], Head(pats)) THEN MatchFrom(tr, Tail(pats), i + 1)
    ELSE MatchFrom(tr, pats, i + 1)

ExpectedS2 ==
    <<OkCtl(0, 0, 0),
      OkCtl(1, 32768, 4096), OkCtl(2, 0, 324), OkBulkOut(324),
      OkCtl(1, 32768, 6144), OkCtl(2, 0, 10000), OkBulkOut(10000),
      OkCtl(2, 0, 28672), OkCtl(4, 32768, 6144),
      Wait(2000), [k |-> "enumerate"], [k |-> "open"],
      OkCtl(1, 32784, 0), OkCtl(2, 3, 53392), OkBulkOut(250000),
      OkCtl(3, 0, 0), OkCtl(5, 32784, 0)>>

\* C4: in scenario S2 on a fault-free transport the bootstrap issues, in this
\* order: GET_CPU_INFO; SET_DATA_ADDR(0x80001000); SET_DATA_LEN(324); bulk-OUT
\* of 324 bytes; SET_DATA_ADDR(0x80001800); SET_DATA_LEN(10000); bulk-OUT of
\* 10000 bytes; SET_DATA_LEN(0x7000); PROG_STAGE1(0x80001800); a wait of at
\* least 2000 ms; the re-enumeration (enumerate, open); SET_DATA_ADDR(0x80100000);
\* SET_DATA_LEN(250000); bulk-OUT of 250000 bytes; FLUSH_CACHE;
\* PROG_STAGE2(0x80100000); and returns success.
C4_ScenarioS2Order ==
    (BootDone /\ ScenarioS2 /\ FaultFree)
        => (ret = THINGINO_SUCCESS /\ MatchFrom(trace, ExpectedS2, 1))

C4_Witness ==
    /\ BootDone /\ ScenarioS2 /\ FaultFree
    /\ ret = THINGINO_SUCCESS
    /\ trace[Len(trace)] = Sleep(1000)
    /\ Len(SelectSeq(trace, LAMBDA e : e.k = "bulk")) = 3

-----------------------------------------------------------------------------
(* src/firmware/handshake.c: firmware_handshake_write_chunk and _a1        *)

is_t41_firmware(d) == d.stage = STAGE_FIRMWARE /\ d.variant = "T41"

drain_polls == 16

\* the bulk-IN log drain: drained reads that return data, then one that
\* times out, at most drain_polls reads in all
drain_events(drained) ==
    [i \in 1..Min(drained + 1, drain_polls) |->
        IF i <= drained
        THEN Bulk(ENDPOINT_IN, 0, 512, 5, "ok", 512)
        ELSE Bulk(ENDPOINT_IN, 0, 512, 5, "timeout", 0)]

\* what happens between an accepted handshake frame and the chunk's bulk-OUT
after_handshake_polling(d) ==
    <<Sleep(50), Ctl(REQUEST_TYPE_VENDOR, VR_FW_READ_STATUS2, 0, 0, 8, 5000, "ok")>>
after_handshake(d) == <<Sleep(50)>>

\* The 40-byte handshake frame as the fields the code fills in: bytes 10-11
\* and 18-19 (T31 layout, in 64 KiB units) or 12-15 and 16-19 (A1 layout, in
\* bytes), and the trailer bytes 32-39.  The CRC field follows the data, which
\* is not modelled.
Frame(layout, offset, size, trailer) ==
    [k |-> "frame", layout |-> layout, offset |-> offset, size |-> size,
     trailer |-> trailer]
TrailerT31 == <<32, 251, 0, 8, 162, 119, 0, 0>>
TrailerT41 == <<240, 23, 0, 68, 112, 122, 0, 0>>
TrailerA1 == <<48, 36, 0, 212, 2, 117, 0, 0>>
handshake_frame(d, chunk_offset, data_size) ==
    Frame("T31", (chunk_offset \div 65536) % 65536,
          ((data_size + 65535) \div 65536) % 65536,
          IF d.stage = STAGE_FIRMWARE /\ d.variant = "T41" THEN TrailerT41 ELSE TrailerT31)
handshake_frame_a1(chunk_offset, data_size) ==
    Frame("A1", chunk_offset, data_size, TrailerA1)

\* sv scripts the VR_WRITE request, bulk_res is what the bulk-OUT reports,
\* read_res what the T41 FW_READ reports.  Result: [status, ev]
firmware_handshake_write_chunk(d, sv, bulk_res, read_res, drained, chunk_offset, data_size) ==
    IF data_size = 0
    THEN [status |-> THINGINO_ERROR_INVALID_PARAMETER, ev |-> << >>]
    ELSE
    LET f == <<handshake_frame(d, chunk_offset, data_size)>>
        r == usb_device_vendor_request(d, sv, REQUEST_TYPE_OUT, VR_WRITE, 0, 0, 40, FALSE)
        h == [r EXCEPT !.ev = f \o @]
        b == usb_device_bulk_transfer(d, bulk_res, ENDPOINT_OUT, chunk_offset, data_size, 6000)
        fw_read == IF is_t41_firmware(d)
                   THEN <<Ctl(REQUEST_TYPE_VENDOR, VR_FW_READ, 0, 0, 4, 1000, read_res)>>
                   ELSE << >>
    IN  IF h.status # THINGINO_SUCCESS
        THEN [status |-> h.status, ev |-> h.ev]
        ELSE IF b.status # THINGINO_SUCCESS
        THEN [status |-> b.status, ev |-> (h.ev \o after_handshake(d)) \o b.ev]
        ELSE [status |-> THINGINO_SUCCESS,
              ev |-> (((((h.ev \o after_handshake(d)) \o b.ev) \o <<Sleep(100)>>) \o fw_read)
                      \o drain_events(drained)) \o <<Sleep(300)>>]

firmware_handshake_write_chunk_a1(d, sv, bulk_res, chunk_offset, data_size) ==
    IF data_size = 0
    THEN [status |-> THINGINO_ERROR_INVALID_PARAMETER, ev |-> << >>]
    ELSE
    LET f == <<handshake_frame_a1(chunk_offset, data_size)>>
        r == usb_device_vendor_request(d, sv, REQUEST_TYPE_OUT, VR_WRITE, 0, 0, 40, FALSE)
        h == [r EXCEPT !.ev = f \o @]
        b == usb_device_bulk_transfer(d, bulk_res, ENDPOINT_OUT, chunk_offset, data_size, 6000)
    IN  IF h.status # THINGINO_SUCCESS
        THEN [status |-> h.status, ev |-> h.ev]
        ELSE IF b.status # THINGINO_SUCCESS
        THEN [status |-> b.status, ev |-> (h.ev \o after_handshake(d)) \o b.ev]
        ELSE [status |-> THINGINO_SUCCESS,
              ev |-> ((h.ev \o after_handshake(d)) \o b.ev) \o <<Sleep(300)>>]

-----------------------------------------------------------------------------
(* src/usb/protocol.c: protocol_fw_read_status                             *)

\* reply_len is the number of bytes the device returned, value the status word
protocol_fw_read_status(d, s, status_cmd, reply_len, value) ==
    LET r == usb_device_vendor_request(d, s, REQUEST_TYPE_VENDOR, status_cmd, 0, 0, 4, TRUE)
    IN  IF r.status # THINGINO_SUCCESS
        THEN [status |-> r.status, ev |-> r.ev, value |-> U32(0, 0)]
        ELSE IF reply_len < 4
        THEN [status |-> THINGINO_ERROR_PROTOCOL, ev |-> r.ev, value |-> U32(0, 0)]
        ELSE [status |-> THINGINO_SUCCESS, ev |-> r.ev, value |-> value]

-----------------------------------------------------------------------------
\* the calls of one flash write or read that the environment disturbs
MaxFlashFaults == 1
FlashSpend(cost) ==
    /\ loc.faults + cost <= MaxFlashFaults
    /\ loc' = [loc EXCEPT !.faults = @ + cost]

-----------------------------------------------------------------------------
(* SpecWrite: write_firmware_to_device on the T31-family and A1 paths, one *)
(* action per call the function makes.                                     *)

CHUNK_SIZE_128KB == 131072
CHUNK_SIZE_64KB == 65536
CHUNK_SIZE_1MB == 1048576
flash_base_address == U32(0, 32784)

poll_interval_ms == 500
\* the program waits at least 5000 ms and at most 60000 ms, that is from the
\* 10th poll to the 120th; the model scales the two numbers of polls down
MinWaitPolls == 1
MaxWaitPolls == 6
min_wait_ms == MinWaitPolls * poll_interval_ms
max_wait_ms == MaxWaitPolls * poll_interval_ms
a1_wait_seconds == 60
\* a poller that waits for five equal readings
stable_polls_5 == 3 + 2
stable_polls == 3

polls_erase_status(d) ==
    d.stage = STAGE_FIRMWARE /\ d.variant \in {"T31", "T31X", "T31ZX", "T41"}

\* src/usb/protocol.c: protocol_fw_write_chunk2 (a 40-byte frame)
protocol_fw_write_chunk2(d, s) ==
    LET r == usb_device_vendor_request(d, s, REQUEST_TYPE_OUT, VR_FW_WRITE2, 0, 0, 40, FALSE)
    IN  IF r.status # THINGINO_SUCCESS
        THEN r
        ELSE [r EXCEPT !.ev = Append(@, Sleep(50))]

T41N_PARTITION_MARKER_SIZE == 172
T41N_FLASH_DESCRIPTOR_SIZE == 984

\* what t41n_send_write_metadata meets: whether its two files can be read,
\* and the results of its transfers in their order
MetaOk ==
    [marker_file |-> TRUE, desc_file |-> TRUE, cmd1 |-> NoFault, marker |-> "ok",
     read1 |-> NoFault, status4 |-> NoFault, cmd2 |-> NoFault, desc |-> "ok",
     read2 |-> NoFault, hs |-> NoFault, read3 |-> NoFault]
MetaOutcomes ==
    {MetaOk,
     [MetaOk EXCEPT !.marker_file = FALSE], [MetaOk EXCEPT !.desc_file = FALSE],
     [MetaOk EXCEPT !.cmd1 = Rep("timeout", 10)], [MetaOk EXCEPT !.marker = "half"],
     [MetaOk EXCEPT !.read1 = <<"io">>], [MetaOk EXCEPT !.status4 = <<"io">>],
     [MetaOk EXCEPT !.cmd2 = <<"io">>], [MetaOk EXCEPT !.desc = "timeout"],
     [MetaOk EXCEPT !.read2 = <<"timeout">>], [MetaOk EXCEPT !.hs = <<"io">>],
     [MetaOk EXCEPT !.read3 = <<"io">>]}

\* the tolerated VR_FW_READ of four bytes
meta_fw_read(d, s) ==
    usb_device_vendor_request(d, s, REQUEST_TYPE_VENDOR, VR_FW_READ, 0, 0, 4, TRUE).ev

\* a metadata bulk-OUT fails unless all its bytes went out
meta_bulk(d, res, length, timeout) ==
    LET b == usb_device_bulk_transfer(d, res, ENDPOINT_OUT, 0, length, timeout)
    IN  [status |-> IF b.status = THINGINO_SUCCESS /\ b.n # length
                    THEN THINGINO_ERROR_TRANSFER_FAILED ELSE b.status,
         ev |-> b.ev]

\* src/firmware/writer.c: t41n_send_write_metadata.  Result: [status, ev]
t41n_send_write_metadata(d, o) ==
    LET c1 == protocol_fw_write_chunk2(d, o.cmd1)
        mk == meta_bulk(d, o.marker, T41N_PARTITION_MARKER_SIZE, 5000)
        st == protocol_fw_read_status(d, o.status4, VR_FW_READ_STATUS4, 4, U32(0, 0))
        ev1 == (((c1.ev \o mk.ev) \o meta_fw_read(d, o.read1)) \o st.ev) \o <<Sleep(100)>>
        c2 == protocol_fw_write_chunk2(d, o.cmd2)
        ds == meta_bulk(d, o.desc, T41N_FLASH_DESCRIPTOR_SIZE, 30000)
        ev2 == ((ev1 \o c2.ev) \o ds.ev) \o meta_fw_read(d, o.read2)
        hs == protocol_fw_handshake(d, o.hs)
    IN  IF ~o.marker_file
        THEN [status |-> THINGINO_ERROR_FILE_IO, ev |-> << >>]
        ELSE IF c1.status # THINGINO_SUCCESS
        THEN [status |-> c1.status, ev |-> c1.ev]
        ELSE IF mk.status # THINGINO_SUCCESS
        THEN [status |-> mk.status, ev |-> c1.ev \o mk.ev]
        ELSE IF ~o.desc_file
        THEN [status |-> THINGINO_ERROR_FILE_IO, ev |-> ev1]
        ELSE IF c2.status # THINGINO_SUCCESS
        THEN [status |-> c2.status, ev |-> ev1 \o c2.ev]
        ELSE IF ds.status # THINGINO_SUCCESS
        THEN [status |-> ds.status, ev |-> (ev1 \o c2.ev) \o ds.ev]
        ELSE IF hs.status # THINGINO_SUCCESS
        THEN [status |-> hs.status, ev |-> ev2 \o hs.ev]
        ELSE [status |-> THINGINO_SUCCESS,
              ev |-> ((ev2 \o hs.ev) \o meta_fw_read(d, o.read3)) \o <<Sleep(100)>>]

\* image sizes that give one chunk, whole chunks and a short last chunk
ImageSizes(variant) ==
    IF variant = "A1" THEN {100000, 16777216, 1100000} ELSE {100000, 262144, 300000}

WriteConfigs ==
    UNION {{[fn |-> "write", variant |-> v, stage0 |-> st, is_a1 |-> (v = "A1"),
             file_result |-> fr, firmware_size |-> sz, via_manager |-> vm]
               : st \in {STAGE_BOOTROM, STAGE_FIRMWARE}, vm \in BOOLEAN,
                 fr \in {THINGINO_SUCCESS, THINGINO_ERROR_FILE_IO},
                 sz \in ImageSizes(v)}
           : v \in {"T31X", "T20", "A1", "T41"}}

WLoc0 ==
    [faults |-> 0, bytes_written |-> 0, chunk_num |-> 0, elapsed_ms |-> 0,
     last_status |-> U32(0, 0), stable_count |-> 0, have_status |-> FALSE,
     is_a1_fw |-> FALSE, readings |-> << >>, polls |-> 0,
     poll_from |-> 0, poll_to |-> 0, silent |-> FALSE]

InitWrite ==
    /\ cfg \in WriteConfigs
    /\ dev = Handle(cfg.stage0, cfg.variant, cfg.via_manager, Dev0.bus, Dev0.address,
                    VENDOR_ID_INGENIC_ALT, PRODUCT_ID_FIRMWARE)
    /\ usb = <<UsbDevice(Dev0.bus, Dev0.address, VENDOR_ID_INGENIC_ALT, PRODUCT_ID_FIRMWARE)>>
    /\ pc = IF cfg.via_manager THEN "w_open" ELSE "w_file"
    /\ trace = << >>
    /\ ret = "none"
    /\ loc = [WLoc0 EXCEPT !.is_a1_fw = cfg.is_a1 /\ ~cfg.via_manager]

\* src/usb/manager.c usb_manager_find_devices: the variant is read from the
\* CPU magic for a boot-ROM product id only, and is T31X otherwise
enumerated_variant(product, detected) ==
    IF product \in {PRODUCT_ID_BOOTROM, PRODUCT_ID_BOOTROM2, PRODUCT_ID_BOOTROM3}
    THEN detected ELSE "T31X"

\* src/main.c write_firmware_from_file: the handle is opened from the
\* enumerated device_info_t with usb_manager_open_device
WriteOpenDevice ==
    /\ pc = "w_open"
    /\ \E open_ok \in BOOLEAN :
          LET info == [bus |-> dev.bus, address |-> dev.address, vendor |-> dev.vendor,
                       product |-> dev.product, stage |-> cfg.stage0,
                       variant |-> enumerated_variant(dev.product, cfg.variant)]
              r == usb_manager_open_device(dev.ctx, info, usb, open_ok)
          IN  /\ FlashSpend(IF open_ok THEN 0 ELSE 1)
              /\ dev' = r.d
              /\ Call(r, "w_prepare")
    /\ UNCHANGED <<usb, cfg>>

\* what the device under write answers to GET_CPU_INFO
MagicA1 == <<"A", "1", "NUL", "NUL", "NUL", "NUL", "NUL", "NUL">>
WriteMagic == IF cfg.is_a1 THEN MagicA1 ELSE MagicBoot

\* strncmp(clean_magic, "A1", 2) == 0 || strncmp(clean_magic, "a1", 2) == 0
is_a1_magic(magic) ==
    /\ Len(clean_cpu_str(magic)) >= 2
    /\ SubSeq(clean_cpu_str(magic), 1, 2) \in {<<"A", "1">>, <<"a", "1">>}

\* include/flash_descriptor.h: the 172-byte partition marker and the 972-byte
\* flash descriptor each go out as one bulk-OUT
FLASH_DESCRIPTOR_SIZE == 972
PARTITION_MARKER_SIZE == 172
flash_partition_marker_send(d, res) ==
    usb_device_bulk_transfer(d, res, ENDPOINT_OUT, 0, PARTITION_MARKER_SIZE, 5000)
flash_descriptor_send(d, res) ==
    usb_device_bulk_transfer(d, res, ENDPOINT_OUT, 0, FLASH_DESCRIPTOR_SIZE, 5000)

\* src/firmware/handshake.c: firmware_handshake_init
firmware_handshake_init(d, s) ==
    LET r == protocol_fw_handshake(d, s)
    IN  IF r.status # THINGINO_SUCCESS
        THEN r
        ELSE [r EXCEPT !.ev = Append(@, Sleep(100))]

\* the handles main.c prepares the burner for
prepares_burner(d) ==
    d.stage = STAGE_FIRMWARE /\ d.variant \in {"T31", "T31X", "T31ZX"}

\* src/main.c write_firmware_from_file, from the A1 detection to the call of
\* write_firmware_to_device: GET_CPU_INFO decides is_a1_fw_stage; partition
\* marker, flash descriptor and FW_HANDSHAKE go out if prepares_burner
WritePrepare ==
    /\ pc = "w_prepare"
    /\ \E o \in {CpuOk, CpuOutcome(Rep("timeout", 4), TRUE, 8)},
          marker_res \in {"ok", "io"}, desc_res \in {"ok", "io"},
          sh \in {NoFault, <<"io">>} :
          LET c == usb_device_get_cpu_info(dev, o.s, o.claim_ok,
                                           CpuReply(o.len, WriteMagic))
              a1 == c.status = THINGINO_SUCCESS /\ is_a1_magic(WriteMagic)
              mk == flash_partition_marker_send(dev, marker_res)
              ds == flash_descriptor_send(dev, desc_res)
              hs == firmware_handshake_init(dev, sh)
              cost == (IF o = CpuOk THEN 0 ELSE 1) + (IF marker_res = "ok" THEN 0 ELSE 1)
                      + (IF desc_res = "ok" THEN 0 ELSE 1) + Cost(sh)
          IN  /\ loc.faults + cost <= MaxFlashFaults
              /\ ~prepares_burner(dev)
                    => (marker_res = "ok" /\ desc_res = "ok" /\ sh = NoFault)
              /\ loc' = [loc EXCEPT !.faults = @ + cost, !.is_a1_fw = a1]
              /\ IF ~prepares_burner(dev)
                 THEN Call([status |-> THINGINO_SUCCESS, ev |-> c.ev], "w_file")
                 ELSE IF mk.status # THINGINO_SUCCESS
                 THEN Return(mk.status, (c.ev \o mk.ev) \o close_events(dev))
                 ELSE IF ds.status # THINGINO_SUCCESS
                 THEN Return(ds.status, ((c.ev \o mk.ev) \o ds.ev) \o close_events(dev))
                 ELSE IF hs.status # THINGINO_SUCCESS
                 THEN Return(hs.status,
                             (((c.ev \o mk.ev) \o ds.ev) \o <<Sleep(500)>>) \o hs.ev
                             \o close_events(dev))
                 ELSE Call([status |-> THINGINO_SUCCESS,
                            ev |-> (((c.ev \o mk.ev) \o ds.ev) \o <<Sleep(500)>>) \o hs.ev],
                           "w_file")
              /\ dev' = IF pc' = "done" THEN usb_device_close(dev) ELSE dev
    /\ UNCHANGED <<usb, cfg>>

\* fopen / ftell / malloc / fread
WriteLoadFile ==
    /\ pc = "w_file"
    /\ IF cfg.file_result # THINGINO_SUCCESS
       THEN Return(cfg.file_result, << >>)
       ELSE /\ pc' = IF is_t41_firmware(dev) THEN "w_meta" ELSE "w_addr"
            /\ UNCHANGED <<trace, ret>>
    /\ UNCHANGED <<dev, usb, cfg, loc>>

\* t41n_send_write_metadata, for a T41 in firmware stage
WriteT41Metadata ==
    /\ pc = "w_meta"
    /\ \E o \in MetaOutcomes :
          /\ FlashSpend(IF o = MetaOk THEN 0 ELSE 1)
          /\ Call(t41n_send_write_metadata(dev, o), "w_addr")
    /\ UNCHANGED <<dev, usb, cfg>>

\* the flash base sent as protocol_set_data_address splits an address
WriteSetAddress_split ==
    /\ pc = "w_addr"
    /\ \E s \in CtlScripts :
          /\ FlashSpend(Cost(s))
          /\ Call(usb_device_vendor_request(dev, s, REQUEST_TYPE_OUT, VR_SET_DATA_ADDR,
                                            flash_base_address.hi, flash_base_address.lo,
                                            0, FALSE),
                  IF loc.is_a1_fw THEN "w_a1wait" ELSE "w_len")
    /\ UNCHANGED <<dev, usb, cfg>>

\* VR_SET_DATA_ADDR sent directly, wValue = flash_base_address & 0xFFFF
WriteSetAddress ==
    /\ pc = "w_addr"
    /\ \E s \in CtlScripts :
          /\ FlashSpend(Cost(s))
          /\ Call(usb_device_vendor_request(dev, s, REQUEST_TYPE_OUT, VR_SET_DATA_ADDR,
                                            flash_base_address.lo, 0, 0, FALSE),
                  IF loc.is_a1_fw THEN "w_a1wait" ELSE "w_len")
    /\ UNCHANGED <<dev, usb, cfg>>

\* 60 times sleep(1)
WriteA1Wait ==
    /\ pc = "w_a1wait"
    /\ trace' = trace \o [i \in 1..a1_wait_seconds |-> Sleep(1000)]
    /\ pc' = "w_len"
    /\ UNCHANGED <<dev, usb, cfg, ret, loc>>

set_length(d, firmware_size) ==
    IF is_t41_firmware(d) THEN CHUNK_SIZE_64KB ELSE firmware_size

\* protocol_set_data_length; then firmware_wait_for_erase_ready is entered:
\* not at all for A1, as a fixed sleep where the status is not polled
WriteSetLength ==
    /\ pc = "w_len"
    /\ \E s \in CtlScripts :
          LET r == protocol_set_data_length(dev, s, set_length(dev, cfg.firmware_size))
          IN  /\ FlashSpend(Cost(s))
              /\ IF loc.is_a1_fw THEN Call(r, "w_chunk")
                 ELSE IF polls_erase_status(dev) THEN Call(r, "w_poll")
                 ELSE Call([r EXCEPT !.ev = IF r.status = THINGINO_SUCCESS
                                             THEN Append(@, Sleep(5000)) ELSE @],
                           "w_chunk")
    /\ UNCHANGED <<dev, usb, cfg>>

StatusWords == {U32(0, 0), U32(65535, 65535)}
StatusOutcomes ==
    {[s |-> NoFault, len |-> 4, value |-> v] : v \in StatusWords}
    \cup {[s |-> <<"io">>, len |-> 4, value |-> U32(0, 0)],
          [s |-> <<"timeout">>, len |-> 4, value |-> U32(0, 0)],
          [s |-> NoFault, len |-> 2, value |-> U32(0, 0)]}

\* a device that answers no FW_READ_STATUS2: every attempt of every poll
\* times out
SilentOutcome == [s |-> Rep("timeout", 10), len |-> 4, value |-> U32(0, 0)]
\* what a poll can meet: the device is silent from the first poll on or not
\* at all
PollOutcomes(l) ==
    IF l.polls = 0 THEN StatusOutcomes \cup {SilentOutcome}
    ELSE IF l.silent THEN {SilentOutcome}
    ELSE StatusOutcomes

\* one pass of the loop of firmware_wait_for_erase_ready
WriteErasePoll ==
    /\ pc = "w_poll"
    /\ IF loc.elapsed_ms >= max_wait_ms
       THEN pc' = "w_chunk" /\ UNCHANGED <<trace, loc>>
       ELSE \E o \in PollOutcomes(loc) :
               LET cost == IF o = SilentOutcome \/ (o.s = NoFault /\ o.len = 4)
                           THEN 0 ELSE 1
                   st == protocol_fw_read_status(dev, o.s, VR_FW_READ_STATUS2, o.len, o.value)
                   counted == st.status = THINGINO_SUCCESS /\ loc.elapsed_ms >= min_wait_ms
                   changed == counted /\ loc.have_status /\ st.value # loc.last_status
                   stable_count == IF ~counted THEN loc.stable_count
                                   ELSE IF ~loc.have_status THEN 1
                                   ELSE IF st.value = loc.last_status
                                   THEN loc.stable_count + 1
                                   ELSE loc.stable_count
                   stop == changed \/ (counted /\ stable_count >= stable_polls)
               IN  /\ loc.faults + cost <= MaxFlashFaults
                   /\ trace' = (trace \o st.ev) \o
                               (IF stop THEN << >> ELSE <<Sleep(poll_interval_ms)>>)
                   /\ loc' = [loc EXCEPT
                                 !.faults = @ + cost,
                                 !.readings = IF st.status = THINGINO_SUCCESS
                                              THEN Append(@, st.value) ELSE @,
                                 !.polls = @ + 1,
                                 !.silent = (o = SilentOutcome),
                                 !.poll_from = IF loc.polls = 0 THEN Len(trace) ELSE @,
                                 !.poll_to = Len(trace) + Len(st.ev)
                                             + (IF stop THEN 0 ELSE 1),
                                 !.have_status = @ \/ counted,
                                 !.last_status = IF counted /\ ~loc.have_status
                                                 THEN st.value ELSE @,
                                 !.stable_count = stable_count,
                                 !.elapsed_ms = IF stop THEN @ ELSE @ + poll_interval_ms]
                   /\ pc' = IF stop THEN "w_chunk" ELSE "w_poll"
    /\ UNCHANGED <<dev, usb, cfg, ret>>

write_chunk_size(d, is_a1) ==
    IF is_t41_firmware(d) THEN CHUNK_SIZE_64KB
    ELSE IF is_a1 THEN CHUNK_SIZE_1MB
    ELSE CHUNK_SIZE_128KB

\* one pass of the chunk loop; the loop is left for protocol_flush_cache
WriteChunk ==
    /\ pc = "w_chunk"
    /\ IF loc.bytes_written >= cfg.firmware_size
       THEN pc' = "w_flush" /\ UNCHANGED <<trace, ret, loc>>
       ELSE \E sv \in CtlScripts, bulk_res \in {"ok", "half", "timeout_full", "io"},
               drained \in {0, 1}, read_res \in {"ok", "timeout"} :
               LET size == Min(write_chunk_size(dev, loc.is_a1_fw),
                               cfg.firmware_size - loc.bytes_written)
                   r == IF loc.is_a1_fw /\ ~is_t41_firmware(dev)
                        THEN firmware_handshake_write_chunk_a1(dev, sv, bulk_res,
                                 loc.bytes_written, size)
                        ELSE firmware_handshake_write_chunk(dev, sv, bulk_res, read_res,
                                 drained, loc.bytes_written, size)
                   cost == Cost(sv) + (IF bulk_res = "ok" THEN 0 ELSE 1) + drained
                           + (IF read_res = "ok" THEN 0 ELSE 1)
               IN  /\ loc.faults + cost <= MaxFlashFaults
                   /\ (loc.is_a1_fw \/ r.status # THINGINO_SUCCESS) => drained = 0
                   /\ (~is_t41_firmware(dev) \/ r.status # THINGINO_SUCCESS)
                          => read_res = "ok"
                   /\ (sv \in {Rep("timeout", 10), <<"io">>}) => bulk_res = "ok"
                   /\ Call(r, "w_chunk")
                   /\ loc' = [loc EXCEPT !.faults = @ + cost,
                                         !.chunk_num = @ + 1,
                                         !.bytes_written =
                                             IF r.status = THINGINO_SUCCESS
                                             THEN @ + size ELSE @]
    /\ UNCHANGED <<dev, usb, cfg>>

\* protocol_flush_cache: a failure is only logged
WriteFlush ==
    /\ pc = "w_flush"
    /\ \E s \in CtlScripts :
          /\ FlashSpend(Cost(s))
          /\ Return(THINGINO_SUCCESS, protocol_flush_cache(dev, s).ev)
    /\ UNCHANGED <<dev, usb, cfg>>

NextWrite ==
    \/ WriteOpenDevice
    \/ WritePrepare
    \/ WriteLoadFile
    \/ WriteT41Metadata
    \/ WriteSetAddress
    \/ WriteA1Wait
    \/ WriteSetLength
    \/ WriteErasePoll
    \/ WriteChunk
    \/ WriteFlush

SpecWrite == InitWrite /\ [][NextWrite]_vars

-----------------------------------------------------------------------------
(* Claims about write_firmware_to_device, checked on SpecWrite             *)

InFirmwareWrite == cfg.fn = "write" /\ dev.stage = STAGE_FIRMWARE

IsCtl(i, req) == trace[i].k = "ctl" /\ trace[i].req = req
TimedOut(i, req) == IsCtl(i, req) /\ trace[i].res = "timeout"

\* the request at position i is sent again after a back-off
Reissued(i, req) ==
    \E j \in (i + 1)..Len(trace) :
        /\ IsCtl(j, req)
        /\ \A m \in (i + 1)..(j - 1) : trace[m].k = "sleep"

\* the first transfer after position i, sleeps skipped, is the bulk-OUT
BulkOutFollows(i) ==
    \E j \in (i + 1)..Len(trace) :
        /\ trace[j].k = "bulk" /\ trace[j].ep = ENDPOINT_OUT
        /\ \A m \in (i + 1)..(j - 1) : trace[m].k = "sleep"

\* C8: in Firmware stage a write-chunk whose VR_WRITE control transfer
\* reports a timeout treats the handshake as a success and goes on to the
\* bulk-OUT of the chunk data: when the last VR_WRITE transfer of a handshake
\* timed out, the next transfer is the chunk's bulk-OUT.
C8_AsStated ==
    InFirmwareWrite =>
        \A i \in 1..Len(trace) :
            (TimedOut(i, VR_WRITE) /\ ~Reissued(i, VR_WRITE)) => BulkOutFollows(i)

\* C9: in Firmware stage a SET_DATA_ADDR whose control transfer reports a
\* timeout is reported as success, so the whole-image write continues past
\* SET_DATA_ADDR(0x8010): it does not return with SET_DATA_ADDR as its last
\* transfer.
C9_AsStated ==
    (InFirmwareWrite /\ trace # << >> /\ TimedOut(Len(trace), VR_SET_DATA_ADDR))
        => ret = "none"

-----------------------------------------------------------------------------
(* Claims about bulk transfers                                             *)

\* the bulk transfer at i reported a timeout with all its bytes transferred
TimeoutWithAllBytes(i) ==
    /\ trace[i].k = "bulk" /\ trace[i].res = "timeout_full"
    /\ trace[i].n = trace[i].len

\* the bytes of the bulk transfer at i are sent again later
SentAgain(i) ==
    \E j \in (i + 1)..Len(trace) :
        /\ trace[j].k = "bulk" /\ trace[j].ep = trace[i].ep
        /\ trace[j].off = trace[i].off

\* C11 as stated: a bulk transfer of length L for which the transport reports
\* a timeout with L bytes transferred is seen by the caller as a success and
\* is not retried: the same bytes are not sent again and the upload does not
\* end in an error at that transfer.
C11_AsStated ==
    \A i \in 1..Len(trace) :
        TimeoutWithAllBytes(i) =>
            /\ ~SentAgain(i)
            /\ ~(i = Len(trace) /\ ret = THINGINO_ERROR_TRANSFER_FAILED)

\* the bulk-OUT at i carries the data of a write chunk
ChunkBulkOut(i) ==
    trace[i].k = "bulk" /\ trace[i].ep = ENDPOINT_OUT /\ trace[i].tmo = 6000

\* what one step adds to the trace, and the transfers among it
NewEvents == SubSeq(trace', Len(trace) + 1, Len(trace'))
NewTransfers == SelectSeq(NewEvents, LAMBDA e : e.k \in {"ctl", "bulk"})
IsWriteFrame(e) == e.k = "ctl" /\ e.req = VR_WRITE
IsChunkData(e) == e.k = "bulk" /\ e.ep = ENDPOINT_OUT /\ e.tmo = 6000
HandshakePaired ==
    \A i \in 1..Len(NewTransfers) :
        /\ (IsWriteFrame(NewTransfers[i]) /\ NewTransfers[i].res = "ok")
              => (i < Len(NewTransfers) /\ IsChunkData(NewTransfers[i + 1]))
        /\ (IsWriteFrame(NewTransfers[i]) /\ NewTransfers[i].res # "ok")
              => (i = Len(NewTransfers) \/ IsWriteFrame(NewTransfers[i + 1]))
        /\ IsChunkData(NewTransfers[i])
              => (i > 1 /\ IsWriteFrame(NewTransfers[i - 1])
                        /\ NewTransfers[i - 1].res = "ok")

\* C12: in every write-chunk operation no other control or bulk transfer is
\* issued between the handshake-frame write (VR_WRITE) and the bulk-OUT of the
\* chunk's data: among the transfers a step of the write makes, an accepted
\* VR_WRITE is followed at once by the chunk's bulk-OUT, a failed one by its
\* own retry or by nothing, and every chunk bulk-OUT comes right after an
\* accepted VR_WRITE.
C12_HandshakePair == [][cfg.fn = "write" => HandshakePaired]_vars

C12_Witness ==
    /\ cfg.fn = "write" /\ pc = "done" /\ ret = THINGINO_SUCCESS
    /\ is_t41_firmware(dev) /\ loc.chunk_num >= 2
    /\ \E i \in 1..Len(trace) : TimedOut(i, VR_WRITE)
    /\ \E i \in 1..Len(trace) : ChunkBulkOut(i)

\* the chunk data transfers of the write, in their order
ChunkBulkOuts == SelectSeq(trace, LAMBDA e : e.k = "bulk" /\ e.ep = ENDPOINT_OUT
                                              /\ e.tmo = 6000)
CeilDiv(a, b) == (a + b - 1) \div b

\* the chunks partition an image of S bytes into pieces of cs bytes
Partitioned(S, cs) ==
    /\ Len(ChunkBulkOuts) = CeilDiv(S, cs)
    /\ \A k \in 1..Len(ChunkBulkOuts) :
          /\ ChunkBulkOuts[k].off = (k - 1) * cs
          /\ ChunkBulkOuts[k].len =
                IF k < Len(ChunkBulkOuts) THEN cs
                ELSE IF S % cs = 0 THEN cs ELSE S % cs

\* the chunk size the variant of the device calls for
variant_chunk_size ==
    IF cfg.variant = "T41" THEN CHUNK_SIZE_64KB
    ELSE IF cfg.variant = "A1" THEN CHUNK_SIZE_1MB
    ELSE CHUNK_SIZE_128KB

WriteSucceeded == cfg.fn = "write" /\ pc = "done" /\ ret = THINGINO_SUCCESS

\* C13 as stated: a successful whole-image write of S bytes to a firmware-stage
\* device issues exactly ceil(S / chunk_size) write chunks, the k-th at offset
\* k * chunk_size, all of chunk_size bytes but the last, with chunk_size
\* 128 KiB for the T31 family, 64 KiB for T41 and 1 MiB for A1.
C13_AsStated ==
    (WriteSucceeded /\ cfg.stage0 = STAGE_FIRMWARE)
        => Partitioned(cfg.firmware_size, variant_chunk_size)

\* total of the sleeps among the events a..b of the trace, in ms
RECURSIVE SleepSum(_, _)
SleepSum(a, b) ==
    IF a > b THEN 0
    ELSE (IF trace[a].k = "sleep" THEN trace[a].ms ELSE 0) + SleepSum(a + 1, b)

\* scenario S4: write_firmware_from_file writes a 16 MiB image to an A1
\* device that is in firmware stage, nothing failing
ScenarioS4 ==
    /\ cfg.fn = "write" /\ cfg.is_a1 /\ cfg.firmware_size = 16777216
    /\ cfg.via_manager /\ cfg.stage0 = STAGE_FIRMWARE
    /\ cfg.file_result = THINGINO_SUCCESS
    /\ pc = "done" /\ loc.faults = 0

A1Frames == SelectSeq(trace, LAMBDA e : e.k = "frame")

\* after position h: no FW_READ_STATUS2, a wait of 60 s or more, then
\* SET_DATA_LEN(16777216), then 16 chunks of 1 MiB with the A1 trailer
A1WriteAfter(h) ==
    /\ \A i \in (h + 1)..Len(trace) : ~IsCtl(i, VR_FW_READ_STATUS2)
    /\ \E l \in (h + 1)..Len(trace) :
          /\ IsCtl(l, VR_SET_DATA_LEN) /\ trace[l].res = "ok"
          /\ U32(trace[l].val, trace[l].idx) = U32Of(16777216)
          /\ SleepSum(h + 1, l - 1) >= 60000
          /\ \A i \in (h + 1)..l : trace[i].k # "frame"
    /\ Len(A1Frames) = 16
    /\ \A k \in 1..16 : /\ A1Frames[k].layout = "A1"
                        /\ A1Frames[k].trailer = TrailerA1
                        /\ A1Frames[k].size = CHUNK_SIZE_1MB
                        /\ A1Frames[k].offset = (k - 1) * CHUNK_SIZE_1MB
    /\ Partitioned(16777216, CHUNK_SIZE_1MB)

\* C14 as stated: in a whole-image write of 16 MiB to an A1 device
\* FW_HANDSHAKE is sent and is followed by no FW_READ_STATUS2 request but by a
\* wait of at least 60 s, then SET_DATA_LEN(16777216), then 16 chunks of
\* 1 MiB whose handshake frames carry the A1 trailer 30 24 00 D4 02 75 00 00.
C14_AsStated ==
    ScenarioS4 =>
        /\ ret = THINGINO_SUCCESS
        /\ \E h \in 1..Len(trace) :
              /\ IsCtl(h, VR_FW_HANDSHAKE) /\ trace[h].res = "ok"
              /\ A1WriteAfter(h)

-----------------------------------------------------------------------------
(* Claims about firmware_wait_for_erase_ready, checked on SpecWrite        *)

\* loc.readings: the status words the polls returned; loc.polls: the polls
\* made; trace[loc.poll_from + 1 .. loc.poll_to]: what the poller did
PollerReturned ==
    /\ cfg.fn = "write" /\ polls_erase_status(dev)
    /\ pc \in {"w_chunk", "w_flush", "done"} /\ loc.polls > 0
\* every poll returned a status word and none of its transfers failed
AllPollsAnswered ==
    /\ Len(loc.readings) = loc.polls
    /\ \A i \in (loc.poll_from + 1)..loc.poll_to :
          trace[i].k = "ctl" => trace[i].res = "ok"
StatusReady == U32(65535, 65535)

\* the status word changes from every poll to the next
NeverStabilizes ==
    /\ AllPollsAnswered
    /\ \A i \in 1..(Len(loc.readings) - 1) : loc.readings[i] # loc.readings[i + 1]

\* C15 as stated: on a transport whose FW_READ_STATUS2 status word keeps
\* changing from poll to poll the erase-ready poller does not return before
\* the cap: when it has returned, the time polled has reached max_wait.
C15_AsStated ==
    (PollerReturned /\ NeverStabilizes) => loc.elapsed_ms >= max_wait_ms

\* every poll from the minimum wait on returned 0xFFFFFFFF
ReadyAfterMinimum ==
    /\ AllPollsAnswered
    /\ \A i \in (MinWaitPolls + 1)..Len(loc.readings) : loc.readings[i] = StatusReady

-----------------------------------------------------------------------------
(* src/firmware/handshake.c firmware_handshake_read_chunk and              *)
(* src/firmware/reader.c: reading the flash in banks                       *)

\* the four bytes of a 32-bit value below 2^31, least significant first
LE32(n) == <<n % 256, (n \div 256) % 256, (n \div 65536) % 256, (n \div 16777216) % 256>>
Zeros(n) == [i \in 1..n |-> 0]

\* handshake_cmd[40] of a read with the two fields exchanged
handshake_cmd_swapped(chunk_offset, size) ==
    [k |-> "frame40",
     bytes |-> Zeros(8) \o LE32(size) \o Zeros(4) \o LE32(chunk_offset)
               \o Zeros(4) \o <<0, 0, 6, 0>> \o <<175, 127, 0, 0>> \o Zeros(8)]
\* handshake_cmd[40] of a read: byte i of the frame is bytes[i + 1]
handshake_cmd(chunk_offset, size) ==
    [k |-> "frame40",
     bytes |-> Zeros(8) \o LE32(chunk_offset) \o Zeros(4) \o LE32(size)
               \o Zeros(4) \o <<0, 0, 6, 0>> \o <<175, 127, 0, 0>> \o Zeros(8)]

\* sw scripts the FW_WRITE1 request and ss the FW_READ_STATUS2 request;
\* bulk_res is what the bulk-IN reports and final_res what the closing
\* libusb_control_transfer of FW_READ reports.
\* Result: [status, ev, n] with n = *out_len
firmware_handshake_read_chunk(d, sw, ss, bulk_res, final_res, chunk_offset, size) ==
    IF size = 0
    THEN [status |-> THINGINO_ERROR_INVALID_PARAMETER, ev |-> << >>, n |-> 0]
    ELSE
    LET w == usb_device_vendor_request(d, sw, REQUEST_TYPE_OUT, VR_FW_WRITE1, 0, 0, 40, FALSE)
        wev == <<handshake_cmd(chunk_offset, size)>> \o w.ev
        st == usb_device_vendor_request(d, ss, REQUEST_TYPE_VENDOR, VR_FW_READ_STATUS2,
                                        0, 0, 8, TRUE)
        b == usb_device_bulk_transfer(d, bulk_res, ENDPOINT_IN, chunk_offset, size, 10000)
        final == Ctl(REQUEST_TYPE_VENDOR, VR_FW_READ, 0, 0, 4, 5000, final_res)
    IN  IF w.status # THINGINO_SUCCESS
        THEN [status |-> w.status, ev |-> wev, n |-> 0]
        ELSE IF st.status # THINGINO_SUCCESS
        THEN [status |-> st.status, ev |-> (wev \o <<Sleep(50)>>) \o st.ev, n |-> 0]
        ELSE IF b.status # THINGINO_SUCCESS
        THEN [status |-> b.status,
              ev |-> (((wev \o <<Sleep(50)>>) \o st.ev) \o <<Sleep(50)>>) \o b.ev, n |-> 0]
        ELSE [status |-> THINGINO_SUCCESS,
              ev |-> ((((wev \o <<Sleep(50)>>) \o st.ev) \o <<Sleep(50)>>) \o b.ev)
                     \o <<final>>,
              n |-> b.n]

\* firmware_read_bank: the bank buffer has size bytes, of which the first
\* chunk_len were copied from what the device sent.
\* Result: [status, ev, buffer]
firmware_read_bank(d, sw, ss, bulk_res, final_res, offset, size) ==
    LET r == firmware_handshake_read_chunk(d, sw, ss, bulk_res, final_res, offset, size)
    IN  IF r.status # THINGINO_SUCCESS
        THEN [status |-> r.status, ev |-> r.ev, buffer |-> [size |-> 0, received |-> 0]]
        ELSE [status |-> THINGINO_SUCCESS, ev |-> r.ev,
              buffer |-> [size |-> size, received |-> r.n]]

\* firmware_read_init: 16 banks of 1 MiB
bank_count == 16
bank_size == 1048576
\* banks that all start at the beginning of the flash
bank_offset_fixed(i) == 0
\* bank->offset = i * 1024 * 1024
bank_offset(i) == i * bank_size

ReadConfigs ==
    {[fn |-> "read_bank", offset |-> o, size |-> s] :
        o \in {0, 1048576, 15728640}, s \in {0, 65536, 1048576}}
    \cup {[fn |-> "read_full", offset |-> 0, size |-> bank_size]}

\* loc.banks: the buffers the banks read so far returned
InitRead ==
    /\ cfg \in ReadConfigs
    /\ dev = Handle(STAGE_FIRMWARE, "T31X", FALSE, Dev0.bus, Dev0.address,
                    VENDOR_ID_INGENIC_ALT, PRODUCT_ID_FIRMWARE)
    /\ usb = <<UsbDevice(Dev0.bus, Dev0.address, VENDOR_ID_INGENIC_ALT, PRODUCT_ID_FIRMWARE)>>
    /\ pc = IF cfg.fn = "read_full" THEN "r_prepare" ELSE "r_bank"
    /\ trace = << >>
    /\ ret = "none"
    /\ loc = [faults |-> 0, bank |-> 0, total_read |-> 0, banks |-> << >>, from |-> 0]

\* firmware_read_full up to the bank loop: 2 s, flash descriptor, 500 ms,
\* firmware_handshake_init
ReadPrepare ==
    /\ pc = "r_prepare"
    /\ \E res \in {"ok", "half", "io"}, s \in CtlScripts :
          LET fd == flash_descriptor_send(dev, res)
              hs == firmware_handshake_init(dev, s)
              cost == (IF res = "ok" THEN 0 ELSE 1) + Cost(s)
          IN  /\ FlashSpend(cost)
              /\ (fd.status # THINGINO_SUCCESS) => s = NoFault
              /\ IF fd.status # THINGINO_SUCCESS
                 THEN Return(fd.status, <<Sleep(2000)>> \o fd.ev)
                 ELSE Call([hs EXCEPT !.ev = ((<<Sleep(2000)>> \o fd.ev) \o <<Sleep(500)>>) \o @],
                           "r_bank")
    /\ UNCHANGED <<dev, usb, cfg>>

\* one call of firmware_read_bank: the call itself, or one turn of the bank
\* loop of firmware_read_full with its copy into the firmware buffer
ReadBank ==
    /\ pc = "r_bank"
    /\ IF cfg.fn = "read_full" /\ loc.bank >= bank_count
       THEN Return(THINGINO_SUCCESS, << >>) /\ UNCHANGED loc
       ELSE \E sw \in CtlScripts, ss \in CtlScripts, bulk_res \in {"ok", "half", "zero", "io"},
               final_res \in {"ok", "timeout"} :
               LET offset == IF cfg.fn = "read_full" THEN bank_offset(loc.bank)
                             ELSE cfg.offset
                   r == firmware_read_bank(dev, sw, ss, bulk_res, final_res, offset, cfg.size)
                   cost == Cost(sw) + Cost(ss) + (IF bulk_res = "ok" THEN 0 ELSE 1)
                           + (IF final_res = "ok" THEN 0 ELSE 1)
               IN  /\ loc.faults + cost <= MaxFlashFaults
                   \* a transfer that is never made cannot be disturbed
                   /\ (r.status # THINGINO_SUCCESS) => final_res = "ok"
                   /\ IF r.status # THINGINO_SUCCESS
                      THEN Return(r.status, r.ev)
                      ELSE IF cfg.fn = "read_bank"
                      THEN Return(THINGINO_SUCCESS, r.ev)
                      ELSE /\ trace' = (trace \o r.ev) \o <<Sleep(50)>>
                           /\ pc' = "r_bank"
                           /\ ret' = ret
                   /\ loc' = [loc EXCEPT !.faults = @ + cost,
                                         !.bank = @ + 1,
                                         !.from = Len(trace),
                                         !.total_read = IF r.status = THINGINO_SUCCESS
                                                        THEN @ + cfg.size ELSE @,
                                         \* memcpy(firmware_buffer + bank->offset, ...)
                                         !.banks = IF r.status = THINGINO_SUCCESS
                                                   THEN Append(@, [size |-> r.buffer.size,
                                                                   received |-> r.buffer.received,
                                                                   at |-> offset])
                                                   ELSE @]
    /\ UNCHANGED <<dev, usb, cfg>>

NextRead ==
    \/ ReadPrepare
    \/ ReadBank

SpecRead == InitRead /\ [][NextRead]_vars

-----------------------------------------------------------------------------
(* Claims about the bank reads, checked on SpecRead                        *)

\* the last call of firmware_read_bank returned success; what it did is
\* trace[loc.from + 1 ..]
BankReadSucceeded ==
    /\ cfg.fn \in {"read_bank", "read_full"}
    /\ Len(loc.banks) > 0
    /\ ret \in {"none", THINGINO_SUCCESS}
LastBankEvents == SubSeq(trace, loc.from + 1, Len(trace))
LastBankTransfers == SelectSeq(LastBankEvents, LAMBDA e : e.k \in {"ctl", "bulk"})
LastBankOffset ==
    IF cfg.fn = "read_full" THEN (loc.bank - 1) * bank_size ELSE cfg.offset
\* no FW_WRITE1 or FW_READ_STATUS2 transfer of the last bank read failed
LastBankUndisturbed ==
    \A i \in 1..Len(LastBankEvents) :
        (LastBankEvents[i].k = "ctl" /\ LastBankEvents[i].req # VR_FW_READ)
            => LastBankEvents[i].res = "ok"

C18_AsStated ==
    BankReadSucceeded =>
        \A i \in 1..Len(loc.banks) :
            loc.banks[i].size = cfg.size /\ loc.banks[i].received = cfg.size

-----------------------------------------------------------------------------
(* src/utils.c detect_variant_from_magic and                               *)
(* src/usb/manager.c usb_manager_find_devices                              *)

MagicBOOT4731 == <<"B", "O", "O", "T", "4", "7", "3", "1">>
MagicX2580 == <<"X", "2", "5", "8", "0", "NUL", "NUL", "NUL">>

\* strstr(str, pat) != NULL and strncmp(str, pat, strlen(pat)) == 0
strstr(str, pat) ==
    \E i \in 1..(Len(str) - Len(pat) + 1) : SubSeq(str, i, i + Len(pat) - 1) = pat
has_prefix(str, pat) == Len(str) >= Len(pat) /\ SubSeq(str, 1, Len(pat)) = pat
\* strstr for "x<digits>" or "X<digits>"
strstr_x(str, digits) == strstr(str, <<"x">> \o digits) \/ strstr(str, <<"X">> \o digits)

\* magic is the clean_magic string of the CPU info
detect_variant_from_magic(magic) ==
    LET compact == SelectSeq(magic, LAMBDA c : c # " ")
        suffix == SubSeq(magic, 7, 8)
    IN  CASE strstr_x(magic, <<"2", "5", "8", "0">>) -> "T41"
          [] strstr_x(magic, <<"1", "0", "0", "0">>) -> "X1000"
          [] strstr_x(magic, <<"1", "6", "0", "0">>) -> "X1600"
          [] strstr_x(magic, <<"1", "7", "0", "0">>) -> "X1700"
          [] strstr_x(magic, <<"2", "0", "0", "0">>) -> "X2000"
          [] strstr_x(magic, <<"2", "1", "0", "0">>) -> "X2100"
          [] strstr_x(magic, <<"2", "6", "0", "0">>) -> "X2600"
          [] magic \in {<<"A", "1">>, <<"a", "1">>} -> "A1"
          [] \/ strstr(magic, <<"t", "3", "1", "z", "x">>)
             \/ strstr(magic, <<"T", "3", "1", "Z", "X">>)
             \/ strstr(magic, <<"z", "x">>) -> "T31ZX"
          [] Len(magic) >= 4 /\ has_prefix(compact, <<"T", "3", "1", "V">>) -> "T31ZX"
          [] Len(magic) >= 4 /\ has_prefix(compact, <<"T", "3", "1">>) -> "T31"
          [] Len(magic) >= 4 /\ has_prefix(compact, <<"T", "2", "0">>) -> "T20"
          [] Len(magic) >= 4 /\ has_prefix(compact, <<"T", "2", "1">>) -> "T21"
          [] Len(magic) >= 4 /\ has_prefix(compact, <<"T", "2", "3">>) -> "T23"
          [] Len(magic) >= 4 /\ has_prefix(compact, <<"T", "3", "0">>) -> "T30"
          [] Len(magic) >= 4 /\ has_prefix(compact, <<"T", "4", "0">>) -> "T40"
          [] Len(magic) >= 4 /\ has_prefix(compact, <<"T", "4", "1">>) -> "T41"
          [] Len(magic) >= 8 /\ suffix = <<"2", "0">> -> "T20"
          [] Len(magic) >= 8 /\ suffix = <<"2", "1">> -> "T21"
          [] Len(magic) >= 8 /\ suffix = <<"2", "3">> -> "T23"
          [] Len(magic) >= 8 /\ suffix = <<"3", "0">> -> "T30"
          [] Len(magic) >= 8 /\ suffix = <<"3", "1">> -> "T31"
          [] Len(magic) >= 8 /\ suffix = <<"4", "0">> -> "T40"
          [] Len(magic) >= 8 /\ suffix = <<"4", "1">> -> "T41"
          [] OTHER -> "T31X"

is_ingenic(u) == u.vendor \in {VENDOR_ID_INGENIC, VENDOR_ID_INGENIC_ALT}
is_bootrom(u) == u.product \in {PRODUCT_ID_BOOTROM, PRODUCT_ID_BOOTROM2, PRODUCT_ID_BOOTROM3}
is_firmware(u) == u.product \in {PRODUCT_ID_FIRMWARE, PRODUCT_ID_FIRMWARE2}
is_listed(u) == is_ingenic(u) /\ (is_bootrom(u) \/ is_firmware(u))

\* a probe that takes the stage of the CPU info as it is
probe_stage_of_cpu_info(magic, cpu_stage) == cpu_stage = STAGE_FIRMWARE
\* the stage test of the probe: strncmp(cpu_info.magic, "Boot", 4) == 0 on
\* the eight bytes as received
probe_says_firmware(magic, cpu_stage) == SubSeq(magic, 1, 4) = <<"B", "o", "o", "t">>

\* The devices an enumeration can meet: product ids of both kinds and one
\* that is not listed, and the magic each would answer.
EnumMagics == {MagicBOOT4731, MagicBoot, MagicT31V, MagicA1, MagicX2580, MagicSpacedBOOT}
EnumProducts == {PRODUCT_ID_BOOTROM2, PRODUCT_ID_FIRMWARE, PRODUCT_ID_FIRMWARE2 + 1}
EnumBuses ==
    {<< >>}
    \cup {<<[product |-> p, magic |-> mg]>> : p \in EnumProducts, mg \in EnumMagics}
    \cup {<<[product |-> p1, magic |-> m1], [product |-> p2, magic |-> m2]>> :
             p1 \in EnumProducts, p2 \in EnumProducts, m1 \in EnumMagics, m2 \in EnumMagics}

\* loc.found: the device_info_t array; loc.probes: for each entry whether
\* its CPU info was read and the stage the CPU info gave; loc.i: the index
\* of the second loop
InitEnum ==
    /\ \E b \in EnumBuses :
          /\ cfg = [fn |-> "enumerate", magics |-> [i \in 1..Len(b) |-> b[i].magic]]
          /\ usb = [i \in 1..Len(b) |-> UsbDevice(1, i, VENDOR_ID_INGENIC, b[i].product)]
    /\ dev = Handle(STAGE_BOOTROM, "T31X", TRUE, 0, 0, VENDOR_ID_INGENIC, PRODUCT_ID_BOOTROM2)
    /\ pc = "e_scan"
    /\ trace = << >>
    /\ ret = "none"
    /\ loc = [faults |-> 0, i |-> 1, found |-> << >>, probes |-> << >>, count |-> 0]

\* one turn of the second loop of usb_manager_find_devices
FindDevicesStep ==
    /\ pc = "e_scan" /\ loc.i <= Len(usb)
    /\ LET u == usb[loc.i]
           info0 == [bus |-> u.bus, address |-> u.address, vendor |-> u.vendor,
                     product |-> u.product,
                     stage |-> IF is_firmware(u) THEN STAGE_FIRMWARE ELSE STAGE_BOOTROM,
                     variant |-> "T31X"]
       IN  IF ~is_listed(u)
           THEN /\ loc' = [loc EXCEPT !.i = @ + 1]
                /\ UNCHANGED <<dev, trace>>
           ELSE IF ~is_bootrom(u)
           THEN /\ loc' = [loc EXCEPT !.i = @ + 1, !.found = Append(@, info0),
                                      !.probes = Append(@, [probed |-> FALSE,
                                                            cpu_stage |-> STAGE_BOOTROM,
                                                            magic |-> cfg.magics[loc.i]])]
                /\ UNCHANGED <<dev, trace>>
           ELSE \E open_ok \in BOOLEAN,
                   o \in {CpuOk, CpuOutcome(Rep("timeout", 4), TRUE, 8),
                          CpuOutcome(NoFault, TRUE, 4)} :
                   LET magic == cfg.magics[loc.i]
                       op == usb_manager_open_device(dev.ctx, info0, usb, open_ok)
                       c == usb_device_get_cpu_info(op.d, o.s, o.claim_ok,
                                                    CpuReply(o.len, magic))
                       ok == op.status = THINGINO_SUCCESS /\ c.status = THINGINO_SUCCESS
                       info == IF ok
                               THEN [info0 EXCEPT
                                       !.stage = IF probe_says_firmware(magic, c.stage)
                                                 THEN STAGE_FIRMWARE ELSE @,
                                       !.variant = enumerated_variant(u.product,
                                           detect_variant_from_magic(clean_cpu_str(magic)))]
                               ELSE info0
                       cost == (IF open_ok THEN 0 ELSE 1) + (IF o = CpuOk THEN 0 ELSE 1)
                   IN  /\ ~open_ok => o = CpuOk
                       /\ loc.faults + cost <= MaxFaults
                       /\ loc' = [loc EXCEPT !.faults = @ + cost, !.i = @ + 1,
                                             !.found = Append(@, info),
                                             !.probes = Append(@, [probed |-> ok,
                                                                   cpu_stage |-> c.stage,
                                                                   magic |-> magic])]
                       /\ dev' = IF op.status = THINGINO_SUCCESS
                                 THEN usb_device_close(op.d) ELSE dev
                       /\ trace' = IF op.status = THINGINO_SUCCESS
                                   THEN ((trace \o op.ev) \o c.ev) \o close_events(op.d)
                                   ELSE trace
    /\ UNCHANGED <<usb, cfg, pc, ret>>

\* *count = ingenic_count, the number the first loop counted
FindDevicesReturn ==
    /\ pc = "e_scan" /\ loc.i > Len(usb)
    /\ loc' = [loc EXCEPT !.count = Len(SelectSeq(usb, is_listed))]
    /\ Return(THINGINO_SUCCESS, << >>)
    /\ UNCHANGED <<dev, usb, cfg>>

NextEnum ==
    \/ FindDevicesStep
    \/ FindDevicesReturn

SpecEnum == InitEnum /\ [][NextEnum]_vars

-----------------------------------------------------------------------------
(* Claims about usb_manager_find_devices, checked on SpecEnum              *)

\* scenario S1: {0x601A, 0xC309} answering "BOOT4731" and {0x601A, 0x8887}
\* answering "Boot47x1", enumerated without a failing transfer
ScenarioS1 ==
    /\ cfg.fn = "enumerate"
    /\ cfg.magics = <<MagicBOOT4731, MagicBoot>>
    /\ Len(usb) = 2
    /\ usb[1].vendor = VENDOR_ID_INGENIC /\ usb[1].product = PRODUCT_ID_BOOTROM2
    /\ usb[2].vendor = VENDOR_ID_INGENIC /\ usb[2].product = PRODUCT_ID_FIRMWARE
    /\ pc = "done" /\ ret = THINGINO_SUCCESS /\ loc.faults = 0
InBusOrder ==
    /\ loc.count = 2 /\ Len(loc.found) = 2
    /\ \A j \in 1..2 : loc.found[j].bus = usb[j].bus /\ loc.found[j].address = usb[j].address
                       /\ loc.found[j].product = usb[j].product

\* C19 as stated: scenario S1 returns two identities in bus order, the first
\* RomBoot / T31 and the second Firmware / T31.
C19_AsStated ==
    ScenarioS1 =>
        /\ InBusOrder
        /\ loc.found[1].stage = STAGE_BOOTROM /\ loc.found[1].variant = "T31"
        /\ loc.found[2].stage = STAGE_FIRMWARE /\ loc.found[2].variant = "T31"

\* C19: scenario S1 returns two identities in bus order, the first RomBoot /
\* T31 and the second Firmware with the default variant T31X, its CPU info
\* never being read.
C19_ScenarioS1 ==
    ScenarioS1 =>
        /\ InBusOrder
        /\ loc.found[1].stage = STAGE_BOOTROM /\ loc.found[1].variant = "T31"
        /\ loc.found[2].stage = STAGE_FIRMWARE /\ loc.found[2].variant = "T31X"
        /\ loc.probes[1].probed /\ ~loc.probes[2].probed
        /\ Len(SelectSeq(trace, LAMBDA e : e.k = "ctl")) = 1

C19_Witness ==
    /\ ScenarioS1 /\ InBusOrder
    /\ loc.found[1].variant = "T31" /\ loc.found[2].stage = STAGE_FIRMWARE

\* the classification of the cleaned magic string: begins with "Boot" or
\* "BOOT", or is "X2580" or "A1" in either case
ClassifiesAsFirmware(magic) ==
    LET clean == clean_cpu_str(magic)
    IN  \/ has_prefix(clean, <<"B", "o", "o", "t">>)
        \/ has_prefix(clean, <<"B", "O", "O", "T">>)
        \/ clean \in {<<"X", "2", "5", "8", "0">>, <<"x", "2", "5", "8", "0">>}
        \/ clean \in {<<"A", "1">>, <<"a", "1">>}

\* C20 as stated: for a device whose CPU info was read, the stage of the
\* CPU info and the stage the enumeration reports are Firmware exactly when
\* the cleaned magic classifies as Firmware, and RomBoot otherwise.
C20_AsStated ==
    cfg.fn = "enumerate" =>
        \A j \in 1..Len(loc.probes) :
            loc.probes[j].probed =>
                /\ (loc.probes[j].cpu_stage = STAGE_FIRMWARE)
                       <=> ClassifiesAsFirmware(loc.probes[j].magic)
                /\ (loc.found[j].stage = STAGE_FIRMWARE)
                       <=> ClassifiesAsFirmware(loc.probes[j].magic)
                /\ loc.probes[j].cpu_stage \in {STAGE_FIRMWARE, STAGE_BOOTROM}
                /\ loc.found[j].stage \in {STAGE_FIRMWARE, STAGE_BOOTROM}

-----------------------------------------------------------------------------
(* SpecVariant: detect_variant_from_magic applied to clean magic strings   *)

\* clean magic strings: a head and a tail, cut to the eight characters a CPU
\* info holds
VariantHeads ==
    {<< >>, <<"T", "3", "1">>, <<"T", " ", "3", " ", "1">>, <<"T", "3", "1", "V">>,
     <<"T", "4", "1">>, <<"T", "2", "0">>, <<"B", "O", "O", "T", "4", "7">>,
     <<"X", "2", "5", "8", "0">>, <<"x", "1", "0", "0", "0">>, <<"X", "2", "6", "0", "0">>,
     <<"A", "1">>, <<"a", "1">>}
VariantTails ==
    {<< >>, <<"3", "1">>, <<"4", "1">>, <<"z", "x">>, <<"x", "1">>, <<" ">>,
     <<"X", "2", "5", "8", "0">>}
VariantMagics ==
    {SubSeq(h \o t, 1, Min(8, Len(h \o t))) : h \in VariantHeads, t \in VariantTails}

InitVariant ==
    /\ cfg \in {[fn |-> "variant", magic |-> mg] : mg \in VariantMagics}
    /\ dev = Handle(STAGE_BOOTROM, "T31X", TRUE, 0, 0, VENDOR_ID_INGENIC, PRODUCT_ID_BOOTROM2)
    /\ usb = << >>
    /\ pc = "v_call"
    /\ trace = << >>
    /\ ret = "none"
    /\ loc = [faults |-> 0]

\* the call detect_variant_from_magic(cfg.magic); ret is the variant returned
DetectVariant ==
    /\ pc = "v_call"
    /\ ret' = detect_variant_from_magic(cfg.magic)
    /\ pc' = "done"
    /\ UNCHANGED <<dev, usb, cfg, trace, loc>>

NextVariant == DetectVariant

SpecVariant == InitVariant /\ [][NextVariant]_vars

\* the classification rules in their documented order, first match winning
DocumentedVariant(magic) ==
    LET compact == SelectSeq(magic, LAMBDA c : c # " ")
        suffix == SubSeq(magic, 7, 8)
    IN  CASE strstr_x(magic, <<"2", "5", "8", "0">>) -> "T41"
          [] magic \in {<<"A", "1">>, <<"a", "1">>} -> "A1"
          [] strstr_x(magic, <<"1", "0", "0", "0">>) -> "X1000"
          [] strstr_x(magic, <<"1", "6", "0", "0">>) -> "X1600"
          [] strstr_x(magic, <<"1", "7", "0", "0">>) -> "X1700"
          [] strstr_x(magic, <<"2", "0", "0", "0">>) -> "X2000"
          [] strstr_x(magic, <<"2", "1", "0", "0">>) -> "X2100"
          [] strstr_x(magic, <<"2", "6", "0", "0">>) -> "X2600"
          [] \/ strstr(magic, <<"t", "3", "1", "z", "x">>)
             \/ strstr(magic, <<"T", "3", "1", "Z", "X">>)
             \/ strstr(magic, <<"z", "x">>) -> "T31ZX"
          [] has_prefix(compact, <<"T", "3", "1", "V">>) -> "T31ZX"
          [] has_prefix(compact, <<"T", "3", "1">>) -> "T31"
          [] has_prefix(compact, <<"T", "2", "0">>) -> "T20"
          [] has_prefix(compact, <<"T", "2", "1">>) -> "T21"
          [] has_prefix(compact, <<"T", "2", "3">>) -> "T23"
          [] has_prefix(compact, <<"T", "3", "0">>) -> "T30"
          [] has_prefix(compact, <<"T", "4", "0">>) -> "T40"
          [] has_prefix(compact, <<"T", "4", "1">>) -> "T41"
          [] Len(magic) >= 8 /\ suffix = <<"2", "0">> -> "T20"
          [] Len(magic) >= 8 /\ suffix = <<"2", "1">> -> "T21"
          [] Len(magic) >= 8 /\ suffix = <<"2", "3">> -> "T23"
          [] Len(magic) >= 8 /\ suffix = <<"3", "0">> -> "T30"
          [] Len(magic) >= 8 /\ suffix = <<"3", "1">> -> "T31"
          [] Len(magic) >= 8 /\ suffix = <<"4", "0">> -> "T40"
          [] Len(magic) >= 8 /\ suffix = <<"4", "1">> -> "T41"
          [] OTHER -> "T31X"

\* C21 as stated: the variant detect_variant_from_magic returns for a clean
\* magic is the one the documented rules give, applied in order with the
\* first match winning, and T31X where none matches.
C21_AsStated ==
    (cfg.fn = "variant" /\ pc = "done") => ret = DocumentedVariant(cfg.magic)

IsSetDataAddr(e) == e.k = "ctl" /\ e.req = VR_SET_DATA_ADDR

\* C24 as stated: every SET_DATA_ADDR(a) carries wValue = a >> 16 and
\* wIndex = a & 0xFFFF; the write's SET_DATA_ADDR is for a = 0x00008010.
C24_AsStated ==
    cfg.fn = "write" =>
        \A i \in 1..Len(trace) :
            IsSetDataAddr(trace[i]) =>
                /\ trace[i].val = flash_base_address.hi
                /\ trace[i].idx = flash_base_address.lo

\* C24 amended: the SET_DATA_ADDR of a whole-image write carries the low 16
\* bits of the flash base 0x00008010 in wValue and 0 in wIndex.
C24_FlashBaseInValue ==
    [][cfg.fn = "write" =>
          \A i \in 1..Len(NewEvents) :
              IsSetDataAddr(NewEvents[i]) =>
                  /\ NewEvents[i].val = flash_base_address.lo
                  /\ NewEvents[i].idx = 0]_vars

C24_Witness ==
    /\ cfg.fn = "write" /\ pc = "done" /\ ret = THINGINO_SUCCESS
    /\ \E i \in 1..Len(trace) : IsSetDataAddr(trace[i]) /\ trace[i].res = "ok"

\* the handle usb_manager_open_device has just returned for the identity
\* the write was given
OpenedFromIdentity ==
    cfg.fn = "write" /\ cfg.via_manager /\ pc = "w_prepare" /\ ~dev.closed

\* C25 as stated: the handle returned by open(identity) carries the stage of
\* the identity, so a device enumerated as Firmware is opened with stage
\* Firmware.
C25_AsStated == OpenedFromIdentity => dev.stage = cfg.stage0

IsBulkOutOf(i, size) ==
    trace[i].k = "bulk" /\ trace[i].ep = ENDPOINT_OUT /\ trace[i].len = size

\* before position i: the partition marker, then the flash descriptor, then
\* FW_HANDSHAKE
BurnerPreparedBefore(i) ==
    \E a, b, c \in 1..(i - 1) :
        /\ a < b /\ b < c
        /\ IsBulkOutOf(a, PARTITION_MARKER_SIZE)
        /\ IsBulkOutOf(b, FLASH_DESCRIPTOR_SIZE)
        /\ IsCtl(c, VR_FW_HANDSHAKE)

\* C26 as stated: in every whole-image write to a T31, T31X or T31ZX device
\* found in Firmware stage the partition marker (172 bytes), the
\* flash descriptor (972 bytes) and FW_HANDSHAKE are sent, in that order,
\* before SET_DATA_ADDR(0x00008010).
C26_AsStated ==
    (/\ cfg.fn = "write" /\ cfg.via_manager /\ cfg.stage0 = STAGE_FIRMWARE
     /\ dev.variant \in {"T31", "T31X", "T31ZX"})
        => \A i \in 1..Len(trace) :
               IsSetDataAddr(trace[i]) => BurnerPreparedBefore(i)

\* C27 as stated: in a write to a non-A1 device the erase-ready poller is
\* called after SET_DATA_ADDR(0x8010) and has finished before SET_DATA_LEN:
\* once it has polled, SET_DATA_ADDR lies before its first poll and no
\* SET_DATA_LEN lies before its last.
C27_AsStated ==
    (cfg.fn = "write" /\ ~loc.is_a1_fw /\ loc.polls > 0)
        => /\ \E i \in 1..loc.poll_from : IsSetDataAddr(trace[i])
           /\ \A i \in 1..loc.poll_to : ~IsCtl(i, VR_SET_DATA_LEN)

\* C28 as stated: the SET_DATA_LEN of a whole-image write carries the full
\* image size for a T31-family or A1 device and 65536 for a T41 device; the
\* device is one found in Firmware stage and opened from its identity.
C28_AsStated ==
    (cfg.fn = "write" /\ cfg.via_manager /\ cfg.stage0 = STAGE_FIRMWARE)
        => \A i \in 1..Len(trace) :
               IsCtl(i, VR_SET_DATA_LEN) =>
                   U32(trace[i].val, trace[i].idx)
                       = U32Of(IF cfg.variant = "T41" THEN CHUNK_SIZE_64KB
                               ELSE cfg.firmware_size)

\* the bootstrap's first GET_CPU_INFO succeeded and its magic says firmware
InitialInfoSaysFirmware ==
    /\ cfg.fn = "bootstrap" /\ cfg.stage0 = STAGE_BOOTROM
    /\ pc \notin {"ensure", "device", "cpu_info"}
    /\ FaultFree
    /\ cpu_info_stage(cfg.magic) = STAGE_FIRMWARE

IsLoadTransfer(e) ==
    \/ e.k = "ctl" /\ e.req \in {VR_SET_DATA_ADDR, VR_SET_DATA_LEN, VR_PROG_STAGE1,
                                VR_PROG_STAGE2}
    \/ e.k = "bulk" /\ e.ep = ENDPOINT_OUT

\* C29 as stated: a bootstrap of a RomBoot handle whose initial GET_CPU_INFO
\* succeeds and indicates firmware returns success without issuing
\* SET_DATA_ADDR, SET_DATA_LEN, a bulk-OUT, PROG_STAGE1 or PROG_STAGE2.
C29_AsStated ==
    InitialInfoSaysFirmware =>
        /\ \A i \in 1..Len(trace) : ~IsLoadTransfer(trace[i])
        /\ pc = "done" => ret = THINGINO_SUCCESS

\* the transfers of the request made with recipient = interface
InterfaceIdx ==
    SelectSeq([i \in 1..Len(trace) |-> i],
              LAMBDA i : trace[i].k = "ctl" /\ trace[i].rt % 32 = 1)

\* C30 as stated: within one vendor request for SET_DATA_ADDR, SET_DATA_LEN
\* or PROG_STAGE2 sent with recipient = device the interface-recipient form
\* of the request is transmitted at most once.
C30_AsStated ==
    (VendorRequestDone /\ KeyOpToDevice) => Len(InterfaceIdx) <= 1

\* C30 amended: every device-recipient transfer of such a request that fails
\* with timeout, pipe or no-device is followed at once by one transfer of the
\* same request with recipient = interface, and no other interface-recipient
\* transfer is made: one per failed attempt, at most 5 within one request.
C30_FallbackPerAttempt ==
    (VendorRequestDone /\ KeyOpToDevice)
        => /\ \A i \in 1..Len(trace) :
                 (/\ trace[i].k = "ctl" /\ trace[i].rt = cfg.rt
                  /\ trace[i].res \in {"timeout", "pipe", "nodev"})
                     => /\ i < Len(trace)
                        /\ trace[i + 1].k = "ctl"
                        /\ trace[i + 1].rt = cfg.rt + 1
                        /\ trace[i + 1].req = cfg.req
           /\ \A j \in 1..Len(InterfaceIdx) :
                 LET p == InterfaceIdx[j]
                 IN  /\ p > 1
                     /\ trace[p - 1].k = "ctl" /\ trace[p - 1].rt = cfg.rt
                     /\ trace[p - 1].res \in {"timeout", "pipe", "nodev"}
           /\ Len(InterfaceIdx) <= 5

C30_Witness ==
    /\ VendorRequestDone /\ KeyOpToDevice
    /\ Len(InterfaceIdx) = 5

-----------------------------------------------------------------------------
(* SpecMain: src/main.c main() running write_firmware_from_file, with the   *)
(* calls it makes: usb_manager_find_devices, bootstrap_device, the          *)
(* preparation of the burner and write_firmware_to_device.                  *)

\* the device once U-Boot runs, under its firmware product id
DevFirmware == UsbDevice(1, 7, VENDOR_ID_INGENIC_ALT, PRODUCT_ID_FIRMWARE)

MainConfigs ==
    {[fn |-> "main", magic |-> mg, magics |-> <<mg, mg>>, is_a1 |-> a1,
      skip_ddr |-> FALSE, fw_result |-> THINGINO_SUCCESS,
      blobs |-> [config_size |-> 324, spl_size |-> 10000, uboot_size |-> 250000,
                 override |-> no_override],
      file_result |-> fr, firmware_size |-> 100000, bus0 |-> b]
        : mg \in {MagicT31V, MagicX2580}, a1 \in BOOLEAN,
          fr \in {THINGINO_SUCCESS, THINGINO_ERROR_FILE_IO},
          b \in {<<Dev0>>, <<DevFirmware>>, << >>}}

MainLoc0 ==
    [faults |-> 0, phase |-> "init",
     i |-> 1, found |-> << >>, probes |-> << >>, count |-> 0,
     poll_count |-> 0, consecutive_successes |-> 0, any_success |-> FALSE,
     reopens_done |-> 0, previous_variant |-> "none", manager |-> "none",
     bytes_written |-> 0, chunk_num |-> 0, elapsed_ms |-> 0,
     last_status |-> U32(0, 0), stable_count |-> 0, have_status |-> FALSE,
     is_a1_fw |-> FALSE, readings |-> << >>, polls |-> 0,
     poll_from |-> 0, poll_to |-> 0]

InitMain ==
    /\ cfg \in MainConfigs
    /\ dev = Handle(STAGE_BOOTROM, "T31X", TRUE, 0, 0, VENDOR_ID_INGENIC, PRODUCT_ID_BOOTROM2)
    /\ usb = cfg.bus0
    /\ pc = "m_init"
    /\ trace = << >>
    /\ ret = "none"
    /\ loc = MainLoc0

\* main: usb_manager_init; a failure ends the program
MainManagerInit ==
    /\ pc = "m_init"
    /\ \E init_ok \in BOOLEAN :
          /\ Spend(IF init_ok THEN 0 ELSE 1)
          /\ IF init_ok
             THEN /\ trace' = Append(trace, [k |-> "libusb_init", ctx |-> dev.ctx])
                  /\ pc' = "m_dispatch"
                  /\ ret' = ret
             ELSE /\ ret' = THINGINO_ERROR_INIT_FAILED
                  /\ pc' = "exit"
                  /\ trace' = trace
    /\ UNCHANGED <<dev, usb, cfg>>

\* write_firmware_from_file is entered and calls usb_manager_find_devices
MainFindDevices ==
    /\ pc = "m_dispatch"
    /\ pc' = "e_scan"
    /\ loc' = [loc EXCEPT !.phase = "find"]
    /\ UNCHANGED <<dev, usb, cfg, trace, ret>>

\* the function called has returned to write_firmware_from_file
Returned(phase) == pc = "done" /\ loc.phase = phase

\* write_firmware_from_file returns status to main
MainReturn(status) ==
    /\ ret' = status
    /\ pc' = "m_cleanup"

\* devices[device_index] with device_index = 0, and usb_manager_open_device;
\* a device in boot ROM is bootstrapped first
MainOpenDevice ==
    /\ Returned("find")
    /\ IF loc.found = << >>
       THEN /\ MainReturn(THINGINO_ERROR_DEVICE_NOT_FOUND)
            /\ UNCHANGED <<dev, trace, loc>>
       ELSE \E open_ok \in BOOLEAN :
               LET r == usb_manager_open_device(dev.ctx, loc.found[1], usb, open_ok)
                   cost == IF open_ok THEN 0 ELSE 1
               IN  /\ loc.faults + cost <= MaxFaults
                   /\ IF r.status # THINGINO_SUCCESS
                      THEN /\ MainReturn(r.status)
                           /\ loc' = [loc EXCEPT !.faults = @ + cost]
                           /\ UNCHANGED <<dev, trace>>
                      ELSE /\ dev' = r.d
                           /\ trace' = trace \o r.ev
                           /\ ret' = ret
                           /\ IF loc.found[1].stage = STAGE_BOOTROM
                              THEN /\ pc' = "device"
                                   /\ loc' = [loc EXCEPT !.phase = "bootstrap"]
                              ELSE /\ pc' = "w_prepare"
                                   /\ loc' = [loc EXCEPT !.phase = "write"]
    /\ UNCHANGED <<usb, cfg>>

\* what the bus can look like two seconds after the bootstrap
BusesAfterBootstrap == {<<DevFirmware>>, <<DevMoved>>, << >>}

\* bootstrap_device has returned: a failure closes the handle and is
\* returned; after a success the handle is closed and the devices are
\* searched again
MainAfterBootstrap ==
    /\ Returned("bootstrap")
    /\ IF ret # THINGINO_SUCCESS
       THEN /\ trace' = trace \o close_events(dev)
            /\ dev' = usb_device_close(dev)
            /\ MainReturn(ret)
            /\ UNCHANGED <<usb, loc>>
       ELSE \E b \in BusesAfterBootstrap :
               LET cost == IF b = <<DevFirmware>> THEN 0 ELSE 1
               IN  /\ loc.faults + cost <= MaxFaults
                   /\ usb' = b
                   /\ trace' = (trace \o <<Sleep(2000)>>) \o close_events(dev)
                   /\ dev' = usb_device_close(dev)
                   /\ loc' = [loc EXCEPT !.faults = @ + cost, !.phase = "refind",
                                         !.i = 1, !.found = << >>, !.probes = << >>]
                   /\ pc' = "e_scan"
                   /\ ret' = ret
    /\ UNCHANGED cfg

\* the first device found in firmware stage is opened again
FirmwareFound == SelectSeq(loc.found, LAMBDA info : info.stage = STAGE_FIRMWARE)

MainReopenDevice ==
    /\ Returned("refind")
    /\ IF loc.found = << >>
       THEN /\ MainReturn(THINGINO_ERROR_DEVICE_NOT_FOUND)
            /\ UNCHANGED <<dev, trace, loc>>
       ELSE IF FirmwareFound = << >>
       THEN /\ MainReturn(THINGINO_ERROR_PROTOCOL)
            /\ UNCHANGED <<dev, trace, loc>>
       ELSE \E open_ok \in BOOLEAN :
               LET r == usb_manager_open_device(dev.ctx, FirmwareFound[1], usb, open_ok)
                   cost == IF open_ok THEN 0 ELSE 1
               IN  /\ loc.faults + cost <= MaxFaults
                   /\ loc' = [loc EXCEPT !.faults = @ + cost, !.phase = "write"]
                   /\ IF r.status # THINGINO_SUCCESS
                      THEN MainReturn(r.status) /\ UNCHANGED <<dev, trace>>
                      ELSE /\ dev' = r.d
                           /\ trace' = trace \o r.ev
                           /\ pc' = "w_prepare"
                           /\ ret' = ret
    /\ UNCHANGED <<usb, cfg>>

\* write_firmware_to_device has returned, or the preparation of the burner
\* has failed: usb_device_close (nothing to do for a handle already closed)
\* and return of the status
MainAfterWrite ==
    /\ Returned("write")
    /\ trace' = trace \o close_events(dev)
    /\ dev' = usb_device_close(dev)
    /\ MainReturn(ret)
    /\ UNCHANGED <<usb, cfg, loc>>

\* main: usb_manager_cleanup
MainManagerCleanup ==
    /\ pc = "m_cleanup"
    /\ trace' = Append(trace, [k |-> "libusb_exit", ctx |-> dev.ctx])
    /\ pc' = "exit"
    /\ UNCHANGED <<dev, usb, cfg, ret, loc>>

NextMain ==
    \/ MainManagerInit
    \/ MainFindDevices
    \/ FindDevicesStep
    \/ FindDevicesReturn
    \/ MainOpenDevice
    \/ BootEntry
    \/ BootGetCpuInfo
    \/ BootLoadFirmware
    \/ BootDdrAddress
    \/ BootDdrLength
    \/ BootDdrTransfer
    \/ BootSplAddress
    \/ BootSplLength
    \/ BootSplTransfer
    \/ BootSetExecLength
    \/ BootProgStage1
    \/ BootAfterStage1
    \/ BootReenumerate
    \/ BootPostSpl
    \/ BootPoll
    \/ BootStage2Address
    \/ BootStage2Length
    \/ BootStage2Transfer
    \/ BootStage2Flush
    \/ BootProgStage2
    \/ MainAfterBootstrap
    \/ MainReopenDevice
    \/ WritePrepare
    \/ WriteLoadFile
    \/ WriteSetAddress
    \/ WriteA1Wait
    \/ WriteSetLength
    \/ WriteChunk
    \/ WriteFlush
    \/ MainAfterWrite
    \/ MainManagerCleanup

SpecMain == InitMain /\ [][NextMain]_vars

-----------------------------------------------------------------------------
(* Handles and libusb contexts over a whole operation (SpecMain)           *)

\* the USB handle through a sequence of events: 0 is no handle open, c > 0 a
\* handle open that was opened from context c, -1 a handle opened while
\* another one is open and never released (a leak) or a release with no
\* handle open
RECURSIVE HandleFlow(_, _)
HandleFlow(evs, h) ==
    IF evs = << >> \/ h = -1 THEN h
    ELSE LET e == Head(evs)
         IN  IF e.k = "open"
             THEN HandleFlow(Tail(evs), IF h = 0 THEN e.ctx ELSE -1)
             ELSE IF e.k = "close"
             THEN HandleFlow(Tail(evs), IF h # 0 /\ e.ctx = h THEN 0 ELSE -1)
             ELSE HandleFlow(Tail(evs), h)

HandleOf(d) == IF d.closed THEN 0 ELSE d.hctx

OpenEvents == SelectSeq(trace, LAMBDA e : e.k = "open")
CloseEvents == SelectSeq(trace, LAMBDA e : e.k = "close")

RECURSIVE ContextSafe(_, _)
ContextSafe(evs, h) ==
    \/ evs = << >>
    \/ LET e == Head(evs)
       IN  IF e.k = "libusb_exit"
           THEN h # e.ctx /\ ContextSafe(Tail(evs), h)
           ELSE ContextSafe(Tail(evs), HandleFlow(<<e>>, h))

\* C23: a libusb context is never destroyed while a handle opened from it is
\* open: neither the context of main's manager nor the context of the
\* temporary manager of the re-enumeration, whether the re-enumeration
\* succeeds or fails.
C23_ContextOutlivesHandles ==
    [][cfg.fn = "main" => ContextSafe(NewEvents, HandleOf(dev))]_vars

ExitEvents == SelectSeq(trace, LAMBDA e : e.k = "libusb_exit")

\* a re-enumeration failed after the handle of main's context was released:
\* the temporary context was destroyed, then the context of main
C23_Witness ==
    /\ cfg.fn = "main" /\ pc = "exit"
    /\ OpenEvents # << >>
    /\ Len(ExitEvents) = 2
    /\ ExitEvents[1].ctx = TempContext
    /\ ExitEvents[2].ctx = dev.ctx

-----------------------------------------------------------------------------
(* PROG_STAGE2 failures (protocol_prog_stage2, bootstrap_program_stage2)    *)

\* the last PROG_STAGE2 control transfer of the trace, 0 if there is none
LastProgStage2 ==
    LET S == {i \in 1..Len(trace) :
                 trace[i].k = "ctl" /\ trace[i].req = VR_PROG_STAGE2}
    IN  IF S = {} THEN 0 ELSE CHOOSE i \in S : \A j \in S : j <= i

\* C31 as stated: a bootstrap whose PROG_STAGE2 control transfer ends in an
\* error that is neither timeout nor pipe returns a typed error; only timeout
\* and pipe are reported as success.
C31_AsStated ==
    (BootDone /\ LastProgStage2 > 0
        /\ trace[LastProgStage2].res \notin {"ok", "timeout", "pipe"})
        => ret # THINGINO_SUCCESS

-----------------------------------------------------------------------------
(* the time firmware_wait_for_erase_ready takes                             *)

\* the time the events a..b of the trace take, in ms: every sleep lasts its
\* duration and a control transfer that times out lasts its timeout
RECURSIVE WallMs(_, _)
WallMs(a, b) ==
    IF a > b THEN 0
    ELSE (CASE trace[a].k = "sleep" -> trace[a].ms
            [] trace[a].k = "ctl" /\ trace[a].res = "timeout" -> trace[a].tmo
            [] OTHER -> 0)
         + WallMs(a + 1, b)

\* C32 as stated: whatever the transport does, the erase-ready poller has
\* returned, and the write has gone on to the chunks, no later than max_wait
\* after the poller started; here for a poller that runs to its cap, as it
\* does when every poll times out.
C32_AsStated ==
    (PollerReturned /\ loc.elapsed_ms >= max_wait_ms)
        => WallMs(loc.poll_from + 1, loc.poll_to) <= max_wait_ms

-----------------------------------------------------------------------------
(* the GET_CPU_INFO polling after PROG_STAGE1 (bootstrap_device)            *)

\* the stage-2 upload has begun: SET_DATA_ADDR(stage-2 address) has been sent
\* after PROG_STAGE1
Stage2Begun ==
    /\ cfg.fn = "bootstrap"
    /\ \E i \in 1..Len(trace) :
          /\ trace[i].k = "ctl" /\ trace[i].req = VR_SET_DATA_ADDR
          /\ trace[i].val = uboot_address(cfg.blobs.override).hi
          /\ trace[i].idx = uboot_address(cfg.blobs.override).lo
          /\ \E j \in 1..(i - 1) :
                trace[j].k = "ctl" /\ trace[j].req = VR_PROG_STAGE1
\* the wait after stage 1 was the polling loop
Polled == ~keeps_handle(dev.variant)

\* C33 as stated: where the wait after stage 1 is polled, the stage-2 upload
\* does not begin until a burst of consecutive successful GET_CPU_INFO
\* replies has been seen.
C33_AsStated ==
    (Stage2Begun /\ Polled) => loc.consecutive_successes >= required_successes

\* C33 amended: the stage-2 upload begins after required_successes
\* consecutive successful GET_CPU_INFO replies, or after max_polls polls
\* without such a burst.
C33_BurstOrCap ==
    (Stage2Begun /\ Polled) =>
        \/ loc.consecutive_successes >= required_successes
        \/ loc.poll_count >= max_polls

C33_Witness ==
    /\ Stage2Begun /\ Polled
    /\ loc.consecutive_successes >= required_successes
    /\ loc.poll_count < max_polls

-----------------------------------------------------------------------------
(* the device opened after re-enumeration (bootstrap_device)                *)

\* the handle was closed for re-enumeration and a device was opened through
\* the temporary manager
Reenumerated ==
    /\ cfg.fn = "bootstrap"
    /\ \E i \in 1..Len(trace) : trace[i].k = "open" /\ trace[i].ctx = TempContext

\* C34 as stated: the device opened after re-enumeration and used for the
\* stage-2 upload has the (vendor, product) pair of the handle that was
\* closed, also with several accepted devices attached.
C34_AsStated ==
    (Reenumerated /\ Stage2Begun) =>
        (dev.vendor = Handle0.vendor /\ dev.product = Handle0.product)

-----------------------------------------------------------------------------
(* the execution length sent before PROG_STAGE1 (bootstrap_device)          *)

\* the SET_DATA_LEN at j is the last request before the PROG_STAGE1 at i
LengthBeforeStage1(j, i) ==
    /\ j < i
    /\ trace[i].k = "ctl" /\ trace[i].req = VR_PROG_STAGE1
    /\ trace[j].k = "ctl" /\ trace[j].req = VR_SET_DATA_LEN
    /\ \A m \in (j + 1)..(i - 1) : trace[m].k \notin {"ctl", "bulk"}

\* C35 as stated: the SET_DATA_LEN immediately before PROG_STAGE1 carries
\* 0x4000 for T20 and 0x7000 for every other variant.
C35_AsStated ==
    cfg.fn = "bootstrap" =>
        \A i \in 1..Len(trace) : \A j \in 1..(i - 1) :
            LengthBeforeStage1(j, i) =>
                /\ trace[j].val = 0
                /\ trace[j].idx = IF cfg.variant = "T20" THEN 16384 ELSE 28672

-----------------------------------------------------------------------------
(* the offsets of bootstrap_transfer_data                                   *)

\* the bulk-OUT transfers at i and j are successive requests of one upload
SuccessiveBulkOut(i, j) ==
    /\ i < j
    /\ trace[i].k = "bulk" /\ trace[i].ep = ENDPOINT_OUT
    /\ trace[j].k = "bulk" /\ trace[j].ep = ENDPOINT_OUT
    /\ \A m \in (i + 1)..(j - 1) : trace[m].k = "sleep"

\* C36 as stated: every bulk-OUT request of an upload starts where the bytes
\* reported transferred so far end: the next request's offset is the
\* previous one's offset plus the bytes it reported, so that each byte is
\* sent once and in order.
C36_AsStated ==
    cfg.fn = "bootstrap" =>
        \A j \in 1..Len(trace) : \A i \in 1..(j - 1) :
            SuccessiveBulkOut(i, j) => trace[j].off = trace[i].off + trace[i].n

-----------------------------------------------------------------------------
(* firmware_read_full: the whole-image read                                 *)

ReadFullSucceeded ==
    cfg.fn = "read_full" /\ pc = "done" /\ ret = THINGINO_SUCCESS

ReadFrames == SelectSeq(trace, LAMBDA e : e.k = "frame40")
ReadBulkIns == SelectSeq(trace, LAMBDA e : e.k = "bulk" /\ e.ep = ENDPOINT_IN)
\* positions of the flash descriptor, of the FW_HANDSHAKE the device accepted
\* and of the first read frame
DescriptorAt(i) ==
    trace[i].k = "bulk" /\ trace[i].ep = ENDPOINT_OUT /\ trace[i].len = 972
HandshakeAt(i) ==
    trace[i].k = "ctl" /\ trace[i].req = VR_FW_HANDSHAKE /\ trace[i].res = "ok"
FirstFrameAt(i) ==
    trace[i].k = "frame40" /\ \A j \in 1..(i - 1) : trace[j].k # "frame40"

-----------------------------------------------------------------------------
(* short and failed chunks of write_firmware_to_device                      *)

\* the chunk bulk-OUT at i ended in an error
ChunkDataFailed(i) ==
    IsChunkData(trace[i]) /\ trace[i].res \notin {"ok", "half", "zero"}

\* C38 as stated: a whole-image write reports success only if the bulk-OUT of
\* every chunk transferred all of the chunk's bytes, and after a chunk whose
\* bulk-OUT fails no further VR_WRITE, bulk-OUT or FLUSH_CACHE is issued and
\* the write returns an error.
C38_AsStated ==
    /\ WriteSucceeded =>
          \A i \in 1..Len(trace) :
              IsChunkData(trace[i]) => trace[i].n = trace[i].len
    /\ cfg.fn = "write" =>
          \A i \in 1..Len(trace) :
              ChunkDataFailed(i) =>
                  /\ pc = "done" => ret # THINGINO_SUCCESS
                  /\ \A j \in (i + 1)..Len(trace) : trace[j].k \notin {"ctl", "bulk"}

-----------------------------------------------------------------------------
(* usb_manager_find_devices_fast against usb_manager_find_devices           *)

\* C39 as stated: the fast enumeration returns an identity for exactly the
\* devices the full enumeration accepts, those with vendor in {0x601A,
\* 0xA108} and product in {0x4770, 0xC309, 0x601A, 0x8887, 0x601E}: the
\* re-enumeration of a bootstrap finds as many devices as the bus holds
\* accepted ones.
C39_AsStated ==
    cfg.fn = "bootstrap" =>
        \A i \in 1..Len(trace) :
            trace[i].k = "enumerate" =>
                trace[i].count = Len(SelectSeq(usb, is_listed))

-----------------------------------------------------------------------------
(* src/usb/device.c: usb_device_control_transfer and                       *)
(* usb_device_interrupt_transfer; SpecTransfer: one call of a transfer     *)
(* function of the handle, open or closed.                                 *)

\* one libusb_control_transfer with the fixed timeout of 5000 ms.
\* Result: [status, ev, used]
usb_device_control_transfer(d, res, request_type, request, value, index, length) ==
    IF d.closed
    THEN [status |-> THINGINO_ERROR_INVALID_PARAMETER, ev |-> << >>, used |-> 0]
    ELSE [status |-> IF res # "ok" THEN THINGINO_ERROR_TRANSFER_FAILED
                     ELSE THINGINO_SUCCESS,
          ev |-> <<Ctl(request_type, request, value, index, length, 5000, res)>>,
          used |-> 1]

Interrupt(ep, len, tmo, res) ==
    [k |-> "interrupt", ep |-> ep, len |-> len, tmo |-> tmo, res |-> res]

\* an interrupt transfer that does not look at the handle
usb_device_interrupt_transfer_unchecked(d, res, endpoint, length, timeout) ==
    [status |-> CASE res \in {"ok", "half", "zero"} -> THINGINO_SUCCESS
                  [] res \in {"timeout", "timeout_full"} -> THINGINO_ERROR_TIMEOUT
                  [] OTHER -> THINGINO_ERROR_TRANSFER_FAILED,
     ev |-> <<Interrupt(endpoint, length, timeout, res)>>, used |-> 1]
\* Result: [status, ev, used]
usb_device_interrupt_transfer(d, res, endpoint, length, timeout) ==
    IF d.closed
    THEN [status |-> THINGINO_ERROR_INVALID_PARAMETER, ev |-> << >>, used |-> 0]
    ELSE usb_device_interrupt_transfer_unchecked(d, res, endpoint, length, timeout)

TransferCalls ==
    [fn : {"vendor_request"},
     rt : {REQUEST_TYPE_OUT, REQUEST_TYPE_VENDOR},
     req : {VR_GET_CPU_INFO, VR_SET_DATA_ADDR, VR_FLUSH_CACHE, VR_WRITE},
     ep : {0}, len : {0},
     script : {NoFault, <<"timeout">>, <<"io">>, Rep("timeout", 10)}]
    \cup
    [fn : {"control_transfer"},
     rt : {REQUEST_TYPE_OUT, REQUEST_TYPE_VENDOR},
     req : {VR_GET_CPU_INFO, VR_SET_DATA_ADDR, VR_FLUSH_CACHE, VR_WRITE},
     ep : {0}, len : {0, 8}, script : {<<r>> : r \in LibusbResults}]
    \cup
    [fn : {"bulk_transfer", "interrupt_transfer"},
     rt : {0}, req : {0}, ep : {ENDPOINT_OUT, ENDPOINT_IN}, len : {40, 65536},
     script : {<<r>> : r \in BulkResults}]

\* the handle is open, or usb_device_close has been called on it
InitTransfer ==
    /\ \E st \in {STAGE_BOOTROM, STAGE_FIRMWARE}, cl \in BOOLEAN :
          dev = Handle(st, "T31X", cl, 1, 5, VENDOR_ID_INGENIC, PRODUCT_ID_BOOTROM2)
    /\ usb = << >>
    /\ cfg \in TransferCalls
    /\ pc = "t_call"
    /\ trace = << >>
    /\ ret = "none"
    /\ loc = [used |-> 0]

TransferVendorRequest ==
    /\ pc = "t_call" /\ cfg.fn = "vendor_request"
    /\ ProtoReturn(usb_device_vendor_request(dev, cfg.script, cfg.rt, cfg.req,
                                             0, 0, cfg.len, cfg.rt >= 128))

TransferControl ==
    /\ pc = "t_call" /\ cfg.fn = "control_transfer"
    /\ ProtoReturn(usb_device_control_transfer(dev, cfg.script[1], cfg.rt, cfg.req,
                                               0, 0, cfg.len))

TransferBulk ==
    /\ pc = "t_call" /\ cfg.fn = "bulk_transfer"
    /\ LET b == usb_device_bulk_transfer(dev, cfg.script[1], cfg.ep, 0, cfg.len, 5000)
       IN  ProtoReturn([status |-> b.status, ev |-> b.ev, used |-> Len(b.ev)])

TransferInterrupt ==
    /\ pc = "t_call" /\ cfg.fn = "interrupt_transfer"
    /\ ProtoReturn(usb_device_interrupt_transfer(dev, cfg.script[1], cfg.ep,
                                                 cfg.len, 5000))

NextTransfer ==
    \/ TransferVendorRequest
    \/ TransferControl
    \/ TransferBulk
    \/ TransferInterrupt

SpecTransfer == InitTransfer /\ [][NextTransfer]_vars

\* C40: a vendor request, control, bulk or interrupt transfer on a handle
\* that has been closed returns INVALID_PARAMETER and performs no USB
\* transfer.
C40_ClosedHandleRefused ==
    (cfg.fn \in {"vendor_request", "control_transfer", "bulk_transfer",
                 "interrupt_transfer"}
        /\ pc = "done" /\ dev.closed)
        => (ret = THINGINO_ERROR_INVALID_PARAMETER /\ trace = << >> /\ loc.used = 0)

C40_Witness ==
    /\ cfg.fn = "interrupt_transfer" /\ cfg.script = <<"ok">>
    /\ pc = "done" /\ dev.closed
    /\ ret = THINGINO_ERROR_INVALID_PARAMETER /\ trace = << >>

=============================================================================
